---------------------------- MODULE Spec2Model ----------------------------
(***************************************************************************)
(* A model of ShaderModuleSpirV (shaderModuleSpirV.cxx): the SPIR-V shader *)
(* module front end.  The instruction stream is a sequence of 32 bit       *)
(* words; the model parses, rewrites and strips it word by word, the way   *)
(* the code does.  Sequences are 1-based: the C++ word words[i] is         *)
(* words[i + 1] here, and the Definition of ID id is defs[id + 1].         *)
(***************************************************************************)
EXTENDS Integers, Sequences, FiniteSets, TLC

VARIABLES
  pc,          \* the constructor step reached, "ready", "invalid", "<step>_aborted"
  words,       \* _instructions._words
  defs,        \* Definitions defs (the constructor's local table)
  stage,       \* ShaderModule::_stage
  inputs,      \* _inputs
  outputs,     \* _outputs
  parameters,  \* _parameters
  nparsed,     \* number of parse_instruction() calls made by parse()
  src,         \* the words the stream was constructed from
  pre,         \* [words, defs] at the entry of the constructor step just taken
  locals,      \* the locals of unwrap_uniform_block() when it returned
  fault,       \* "none", "assert" (nassertv failed), "segv" (null dereference)
  prev,        \* the argument of the last link_inputs() call
  result,      \* what the last public operation returned ("none" before any)
  nstrips      \* number of InstructionStream::strip() calls (stream specification)

vars == <<pc, words, defs, stage, inputs, outputs, parameters, nparsed, src,
          pre, locals, fault, prev, result, nstrips>>

---------------------------------------------------------------------------
(* Bounds of the model. *)

\* instructions in a stream of the stream specification
MaxInstr == 3
\* calls of strip() on one stream
MaxStrips == 2
\* variables declared by a module
MaxVars == 2
\* highest location an input module decorates a variable with
MaxLoc == 1
\* members of the "$Global" struct
MaxMembers == 2
\* uses (access chains, loads, copies) of the "$Global" variable
MaxUses == 2

---------------------------------------------------------------------------
(* SPIR-V enumerants the code names (spirv.h). *)

SpvMagicNumber == 119734787
SpvWordCountShift == 16
SpvOpCodeMask == 65535
SpvBuiltInMax == 2147483647

SpvOpNop == 0
SpvOpSourceContinued == 2
SpvOpSource == 3
SpvOpSourceExtension == 4
SpvOpName == 5
SpvOpMemberName == 6
SpvOpString == 7
SpvOpLine == 8
SpvOpExtension == 10
SpvOpExtInstImport == 11
SpvOpMemoryModel == 14
SpvOpEntryPoint == 15
SpvOpExecutionMode == 16
SpvOpCapability == 17
SpvOpTypeVoid == 19
SpvOpTypeBool == 20
SpvOpTypeInt == 21
SpvOpTypeFloat == 22
SpvOpTypeVector == 23
SpvOpTypeMatrix == 24
SpvOpTypeImage == 25
SpvOpTypeSampler == 26
SpvOpTypeSampledImage == 27
SpvOpTypeArray == 28
SpvOpTypeStruct == 30
SpvOpTypePointer == 32
SpvOpConstant == 43
SpvOpVariable == 59
SpvOpLoad == 61
SpvOpCopyMemory == 63
SpvOpAccessChain == 65
SpvOpInBoundsAccessChain == 66
SpvOpDecorate == 71
SpvOpMemberDecorate == 72
SpvOpDecorationGroup == 73
SpvOpGroupDecorate == 74
SpvOpGroupMemberDecorate == 75
SpvOpNoLine == 317
SpvOpModuleProcessed == 330

SpvDecorationBuiltIn == 11
SpvDecorationLocation == 30

SpvStorageClassUniformConstant == 0
SpvStorageClassInput == 1
SpvStorageClassUniform == 2
SpvStorageClassOutput == 3
SpvStorageClassPrivate == 6

SpvAddressingModelLogical == 0
SpvMemoryModelGLSL450 == 1

SpvDim1D == 0
SpvDim2D == 1
SpvDim3D == 2
SpvDimCube == 3
SpvDimRect == 4
SpvDimBuffer == 5
SpvDimSubpassData == 6

SpvAccessQualifierReadOnly == 0
SpvAccessQualifierWriteOnly == 1
SpvAccessQualifierReadWrite == 2

(* Enumerants only the input modules use; the code never names them. *)
Other ==
  [ OpUndef |-> 1, OpTypeRuntimeArray |-> 29, OpTypeFunction |-> 33,
    OpFunction |-> 54, OpFunctionEnd |-> 56, OpLabel |-> 248,
    OpReturn |-> 253, OpGroupAll |-> 261,
    DecorationBlock |-> 2, DecorationBinding |-> 33,
    DecorationDescriptorSet |-> 34, DecorationOffset |-> 35,
    ExecutionModelVertex |-> 0, ExecutionModelFragment |-> 4,
    Version |-> 65536, BadMagic |-> 50462983 ]

---------------------------------------------------------------------------
(* Words and instructions. *)

\* Every word of the model is below 2^31, where the code's casts between
\* uint32_t and int keep the value.
TwoTo16 == 2 ^ SpvWordCountShift

\* one instruction: word 0 packs (word count, opcode)
Instr(opcode, args) == <<(Len(args) + 1) * TwoTo16 + opcode>> \o args

RECURSIVE Flatten(_)
Flatten(ss) == IF ss = <<>> THEN <<>> ELSE Head(ss) \o Flatten(Tail(ss))

\* all sequences over S of length at most n
SeqsUpTo(S, n) == UNION {[1..k -> S] : k \in 0..n}

Header(bound) == <<SpvMagicNumber, Other.Version, 0, bound, 0>>

\* Instruction: the view InstructionIterator::operator* gives at position p
WCount(w, p) == w[p] \div TwoTo16
Opcode(w, p) == w[p] % (SpvOpCodeMask + 1)
NArgs(w, p) == WCount(w, p) - 1
Arg(w, p, i) == w[p + 1 + i]

---------------------------------------------------------------------------
(* InstructionStream::strip() *)

is_debug_opcode_no_line(opcode) ==
  opcode \in {SpvOpNop, SpvOpSourceContinued, SpvOpSource, SpvOpSourceExtension,
              SpvOpName, SpvOpMemberName, SpvOpString, SpvOpNoLine,
              SpvOpModuleProcessed}

\* the negation of the condition of lines 811-820
is_debug_opcode(opcode) ==
  ~ ( /\ opcode # SpvOpNop
      /\ opcode # SpvOpSourceContinued
      /\ opcode # SpvOpSource
      /\ opcode # SpvOpSourceExtension
      /\ opcode # SpvOpName
      /\ opcode # SpvOpMemberName
      /\ opcode # SpvOpString
      /\ opcode # SpvOpLine
      /\ opcode # SpvOpNoLine
      /\ opcode # SpvOpModuleProcessed )

\* the loop of lines 806-825: p is `words', copy is copy._words
RECURSIVE strip_loop(_, _, _)
strip_loop(w, p, copy) ==
  IF p > Len(w) THEN copy
  ELSE LET wcount == WCount(w, p)
           opcode == Opcode(w, p)
       IN IF wcount = 0 THEN copy   \* nassertr(wcount > 0, copy)
          ELSE strip_loop(w, p + wcount,
                 IF is_debug_opcode(opcode) THEN copy
                 ELSE copy \o SubSeq(w, p, p + wcount - 1))

\* a strip that stops filtering after the first instruction it dropped
RECURSIVE strip_first_only(_, _, _)
strip_first_only(w, p, copy) ==
  IF p > Len(w) THEN copy
  ELSE LET wcount == WCount(w, p)
           opcode == Opcode(w, p)
       IN IF wcount = 0 THEN copy
          ELSE IF is_debug_opcode(opcode)
               THEN copy \o SubSeq(w, p + wcount, Len(w))
               ELSE strip_first_only(w, p + wcount,
                                     copy \o SubSeq(w, p, p + wcount - 1))

strip_once(w) == strip_first_only(w, 6, SubSeq(w, 1, 5))

strip(w) == strip_loop(w, 6, SubSeq(w, 1, 5))

---------------------------------------------------------------------------
(* ShaderType: interned types, compared by value.  A type is a tuple whose *)
(* first element names its kind; NullType is the null pointer.             *)

NullType == <<"null">>
ScalarType(name) == <<name>>
VectorType(scalar, n) == <<"vector", scalar, n>>
MatrixType(scalar, rows, cols) == <<"matrix", scalar, rows, cols>>
ImageType(texture_type, access) == <<"image", texture_type, access>>
SampledImageType(texture_type) == <<"sampled_image", texture_type>>
ArrayType(element, n) == <<"array", element, n>>
StructType(members) == <<"struct", members>>

TypeEq(a, b) == a[1] = b[1] /\ a = b
IsNull(t) == t[1] = "null"
IsScalar(t) == t[1] \in {"bool", "int", "uint", "float"}
IsVector(t) == t[1] = "vector"
IsImage(t) == t[1] = "image"
IsStruct(t) == t[1] = "struct"

\* ShaderType::get_num_parameter_locations() of a non-null type
RECURSIVE SumLocations(_)
RECURSIVE get_num_parameter_locations(_)
get_num_parameter_locations(t) ==
  CASE t[1] = "array" -> get_num_parameter_locations(t[2]) * t[3]
    [] t[1] = "struct" -> SumLocations(t[2])
    [] OTHER -> 1
SumLocations(members) ==
  IF members = <<>> THEN 0
  ELSE get_num_parameter_locations(Head(members)[1]) + SumLocations(Tail(members))

---------------------------------------------------------------------------
(* Definition and its setters (lines 833-939). *)

\* the literal strings of the input modules: a string operand is one word,
\* the index of its text here
StrTable ==
  <<"vertex", "color", "texcoord", "normal", "$Global", "main", "gv",
    "m0", "m1", "m2", "m3">>

\* (const char *)&args[i]: the text a string operand holds
String(word) == IF word \in DOMAIN StrTable THEN StrTable[word] ELSE ""

StrWord(text) == CHOOSE i \in DOMAIN StrTable : StrTable[i] = text

\* Definition() as default-constructed
Definition ==
  [ dtype |-> "DT_none", name |-> "", type |-> NullType, location |-> -1,
    builtin |-> SpvBuiltInMax, constant |-> 0, member_names |-> <<>>,
    storage_class |-> -1 ]

Def(d, id) == d[id + 1]

set_name(def, name) == [def EXCEPT !.name = name]

set_member_name(def, i, name) ==
  LET n == Len(def.member_names)
      grown == IF i >= n
               THEN def.member_names \o [k \in 1..(i + 1 - n) |-> ""]
               ELSE def.member_names
  IN [def EXCEPT !.member_names = [grown EXCEPT ![i + 1] = name]]

set_type(def, type) == [def EXCEPT !.dtype = "DT_type", !.type = type]

\* the storage class is not stored (lines 872-875)
set_type_pointer(def, storage_class, type) ==
  [def EXCEPT !.dtype = "DT_type_pointer", !.type = type]

set_variable(def, type, storage_class) ==
  [def EXCEPT !.dtype = "DT_variable", !.type = type,
              !.storage_class = storage_class]

set_constant(def, type, data) ==
  [def EXCEPT !.dtype = "DT_constant", !.type = type,
              !.constant = IF Len(data) > 0 THEN data[1] ELSE 0]

---------------------------------------------------------------------------
(* parse_instruction() and parse() (lines 167-442). *)

\* what parse_instruction returns: ok is its bool; fault is set where the
\* code reads through a null pointer or past the end of a vector
PResult(ok, d, f) == [ok |-> ok, defs |-> d, fault |-> f]

\* defs[id].<setter>: d with the Definition of id replaced
Put(d, id, def) == [d EXCEPT ![id + 1] = def]

\* the Texture::TextureType of case SpvOpTypeImage, "" where it returns false
image_texture_type(dim, arrayed) ==
  CASE dim = SpvDim1D ->
         IF arrayed # 0 THEN "TT_1d_texture_array" ELSE "TT_1d_texture"
    [] dim = SpvDim2D ->
         IF arrayed # 0 THEN "TT_2d_texture_array" ELSE "TT_2d_texture"
    [] dim = SpvDim3D -> "TT_3d_texture"
    [] dim = SpvDimCube ->
         IF arrayed # 0 THEN "TT_cube_map_array" ELSE "TT_cube_map"
    [] dim = SpvDimBuffer -> "TT_buffer_texture"
    [] OTHER -> ""

image_access(a, nargs) ==
  IF nargs > 8
  THEN CASE a[9] = SpvAccessQualifierReadOnly -> "read_only"
         [] a[9] = SpvAccessQualifierWriteOnly -> "write_only"
         [] a[9] = SpvAccessQualifierReadWrite -> "read_write"
         [] OTHER -> "unknown"
  ELSE "unknown"

\* the members ShaderType::Struct::add_member collects (lines 397-402)
RECURSIVE struct_members(_, _, _, _)
struct_members(d, a, nargs, i) ==
  IF i >= nargs - 1 THEN <<>>
  ELSE <<<<Def(d, a[i + 2]).type, Def(d, a[1]).member_names[i + 1]>>>>
       \o struct_members(d, a, nargs, i + 1)

\* a is the argument words: args[i] is a[i + 1]
parse_instruction(d, opcode, a, nargs) ==
  CASE opcode = SpvOpMemoryModel ->
         IF a[1] # SpvAddressingModelLogical THEN PResult(FALSE, d, FALSE)
         ELSE IF a[2] # SpvMemoryModelGLSL450 THEN PResult(FALSE, d, FALSE)
         ELSE PResult(TRUE, d, FALSE)
    [] opcode = SpvOpName ->
         PResult(TRUE, Put(d, a[1], set_name(Def(d, a[1]), String(a[2]))), FALSE)
    [] opcode = SpvOpMemberName ->
         PResult(TRUE,
                 Put(d, a[1], set_member_name(Def(d, a[1]), a[2], String(a[3]))),
                 FALSE)
    [] opcode = SpvOpTypeVoid ->
         PResult(TRUE, Put(d, a[1], set_type(Def(d, a[1]), NullType)), FALSE)
    [] opcode = SpvOpTypeBool ->
         PResult(TRUE, Put(d, a[1], set_type(Def(d, a[1]), ScalarType("bool"))), FALSE)
    [] opcode = SpvOpTypeInt ->
         PResult(TRUE,
                 Put(d, a[1], set_type(Def(d, a[1]),
                       IF a[3] # 0 THEN ScalarType("int") ELSE ScalarType("uint"))),
                 FALSE)
    [] opcode = SpvOpTypeFloat ->
         PResult(TRUE, Put(d, a[1], set_type(Def(d, a[1]), ScalarType("float"))), FALSE)
    [] opcode = SpvOpTypeVector ->
         LET element_type == Def(d, a[2]).type
         IN IF ~IsScalar(element_type) THEN PResult(FALSE, d, FALSE)   \* DCAST_INTO_R
            ELSE PResult(TRUE,
                         Put(d, a[1], set_type(Def(d, a[1]),
                               VectorType(element_type[1], a[3]))),
                         FALSE)
    [] opcode = SpvOpTypeMatrix ->
         LET column_type == Def(d, a[2]).type
         IN IF ~IsVector(column_type) THEN PResult(FALSE, d, FALSE)    \* DCAST_INTO_R
            ELSE PResult(TRUE,
                         Put(d, a[1], set_type(Def(d, a[1]),
                               MatrixType(column_type[2], a[3], column_type[3]))),
                         FALSE)
    [] opcode = SpvOpTypePointer ->
         PResult(TRUE,
                 Put(d, a[1], set_type_pointer(Def(d, a[1]), a[2], Def(d, a[3]).type)),
                 FALSE)
    [] opcode = SpvOpTypeImage ->
         LET texture_type == image_texture_type(a[3], a[5])
         IN IF texture_type = "" THEN PResult(FALSE, d, FALSE)
            ELSE PResult(TRUE,
                         Put(d, a[1], set_type(Def(d, a[1]),
                               ImageType(texture_type, image_access(a, nargs)))),
                         FALSE)
    [] opcode = SpvOpTypeSampler ->
         PResult(TRUE, Put(d, a[1], set_type(Def(d, a[1]), ScalarType("sampler"))), FALSE)
    [] opcode = SpvOpTypeSampledImage ->
         LET image == Def(d, a[2]).type
         IN IF IsNull(image) THEN PResult(FALSE, d, TRUE)     \* null->as_image()
            ELSE IF IsImage(image)
            THEN PResult(TRUE,
                         Put(d, a[1], set_type(Def(d, a[1]), SampledImageType(image[2]))),
                         FALSE)
            ELSE PResult(FALSE, d, FALSE)
    [] opcode = SpvOpTypeArray ->
         IF ~IsNull(Def(d, a[2]).type)
         THEN PResult(TRUE,
                      Put(d, a[1], set_type(Def(d, a[1]),
                            ArrayType(Def(d, a[2]).type, Def(d, a[3]).constant))),
                      FALSE)
         ELSE PResult(TRUE, d, FALSE)
    [] opcode = SpvOpTypeStruct ->
         IF Len(Def(d, a[1]).member_names) < nargs - 1
         THEN PResult(FALSE, d, TRUE)                        \* _member_names[i] past the end
         ELSE PResult(TRUE,
                      Put(d, a[1], set_type(Def(d, a[1]),
                            StructType(struct_members(d, a, nargs, 0)))),
                      FALSE)
    [] opcode = SpvOpConstant ->
         PResult(TRUE,
                 Put(d, a[2], set_constant(Def(d, a[2]), Def(d, a[1]).type,
                                           SubSeq(a, 3, nargs))),
                 FALSE)
    [] opcode = SpvOpVariable ->
         LET ptr == Def(d, a[1])
         IN IF ptr.dtype # "DT_type_pointer" THEN PResult(FALSE, d, FALSE)
            ELSE PResult(TRUE,
                         Put(d, a[2], set_variable(Def(d, a[2]), ptr.type, a[3])),
                         FALSE)
    [] opcode = SpvOpDecorate ->
         CASE a[2] = SpvDecorationBuiltIn ->
                PResult(TRUE, Put(d, a[1], [Def(d, a[1]) EXCEPT !.builtin = a[3]]), FALSE)
           [] a[2] = SpvDecorationLocation ->
                PResult(TRUE, Put(d, a[1], [Def(d, a[1]) EXCEPT !.location = a[3]]), FALSE)
           [] OTHER -> PResult(TRUE, d, FALSE)
    [] OTHER -> PResult(TRUE, d, FALSE)

\* the loop of lines 190-194: n counts the parse_instruction calls
RECURSIVE parse_loop(_, _, _, _)
parse_loop(w, p, d, n) ==
  IF p > Len(w) THEN [ok |-> TRUE, defs |-> d, n |-> n, fault |-> FALSE]
  ELSE LET r == parse_instruction(d, Opcode(w, p),
                                  SubSeq(w, p + 1, p + WCount(w, p) - 1), NArgs(w, p))
       IN IF ~r.ok THEN [ok |-> FALSE, defs |-> r.defs, n |-> n + 1, fault |-> r.fault]
          ELSE parse_loop(w, p + WCount(w, p), r.defs, n + 1)

\* the header checks of lines 169-181 with the magic number check left out
header_ok_no_magic(w) == Len(w) >= 5

\* the header checks of lines 169-181
header_ok(w) == Len(w) >= 5 /\ w[1] = SpvMagicNumber

\* a parse that reports success whatever parse_instruction returned
parse_ignoring_failures(w, d) ==
  IF ~header_ok(w) THEN [ok |-> FALSE, defs |-> d, n |-> 0, fault |-> FALSE]
  ELSE [parse_loop(w, 6, [i \in 1..w[4] |-> Definition], 0) EXCEPT !.ok = TRUE]

\* parse(defs): d is defs as passed in
parse(w, d) ==
  IF ~header_ok(w) THEN [ok |-> FALSE, defs |-> d, n |-> 0, fault |-> FALSE]
  ELSE parse_loop(w, 6, [i \in 1..w[4] |-> Definition], 0)

---------------------------------------------------------------------------
(* InstructionStream: the mutators.  An iterator is a position p in the    *)
(* words; each operation returns the new words, the iterator it returns    *)
(* being the position p again.                                             *)

\* insert(it, opcode, args): splices a new instruction before position p
insert(w, p, opcode, args) ==
  SubSeq(w, 1, p - 1) \o Instr(opcode, args) \o SubSeq(w, p, Len(w))

\* erase(it): removes the instruction at p; p is then the next instruction
erase(w, p) == SubSeq(w, 1, p - 1) \o SubSeq(w, p + WCount(w, p), Len(w))

\* erase_arg(it, arg): removes argument word arg and decrements the word count
erase_arg(w, p, arg) ==
  SubSeq(w, 1, p - 1) \o <<w[p] - TwoTo16>> \o SubSeq(w, p + 1, p + arg)
    \o SubSeq(w, p + arg + 2, Len(w))

\* allocate_id(): the ID returned is the header's bound, which is incremented
allocated_id(w) == w[4]
allocate_id(w) == [w EXCEPT ![4] = @ + 1]

\* op.args[i] = v, a write through the Instruction's pointer into the words
SetArg(w, p, i, v) == [w EXCEPT ![p + 1 + i] = v]

---------------------------------------------------------------------------
(* unwrap_uniform_block() (lines 619-782). *)

\* a pmap with one more entry
MapPut(f, k, v) == [x \in DOMAIN f \cup {k} |-> IF x = k THEN v ELSE f[x]]

\* "Find type identifier" (lines 680-685): the last ID whose Definition is a
\* type equal to the member's, 0 when there is none
RECURSIVE find_type_id(_, _, _, _)
find_type_id(d, type, id, found) ==
  IF id >= Len(d) THEN found
  ELSE find_type_id(d, type, id + 1,
         IF TypeEq(Def(d, id).type, type) /\ Def(d, id).dtype = "DT_type"
         THEN id ELSE found)

\* one member's (OpTypePointer, OpVariable) pair with the variable recorded
\* under the pointer's ID
member_pair_swapped(st, member, mi, type_id) ==
  LET type_pointer_id == allocated_id(st.w)
      w1 == insert(allocate_id(st.w), st.p, SpvOpTypePointer,
                   <<type_pointer_id, SpvStorageClassUniformConstant, type_id>>)
      d1 == Append(st.d, Definition)
      d2 == Put(d1, type_pointer_id,
                set_type_pointer(Def(d1, type_pointer_id),
                                 SpvStorageClassUniformConstant, member[1]))
      variable_id == allocated_id(w1)
      w2 == insert(allocate_id(w1), st.p + 4, SpvOpVariable,
                   <<type_pointer_id, variable_id, SpvStorageClassUniformConstant>>)
      d3 == Append(d2, Definition)
      d4 == Put(d3, variable_id,
                set_variable([Def(d3, variable_id) EXCEPT !.name = member[2]],
                             member[1], SpvStorageClassUniformConstant))
  IN [st EXCEPT !.w = w2, !.d = d4, !.p = st.p + 8,
                !.member_ids = [@ EXCEPT ![mi + 1] = type_pointer_id]]

\* lines 690-716 for one member: st.p is `it'
member_pair(st, member, mi, type_id) ==
  LET type_pointer_id == allocated_id(st.w)
      w1 == insert(allocate_id(st.w), st.p, SpvOpTypePointer,
                   <<type_pointer_id, SpvStorageClassUniformConstant, type_id>>)
      d1 == Append(st.d, Definition)
      d2 == Put(d1, type_pointer_id,
                set_type_pointer(Def(d1, type_pointer_id),
                                 SpvStorageClassUniformConstant, member[1]))
      variable_id == allocated_id(w1)
      w2 == insert(allocate_id(w1), st.p + 4, SpvOpVariable,
                   <<type_pointer_id, variable_id, SpvStorageClassUniformConstant>>)
      d3 == Append(d2, Definition)
      d4 == Put(d3, variable_id,
                set_variable([Def(d3, variable_id) EXCEPT !.name = member[2]],
                             member[1], SpvStorageClassUniformConstant))
  IN IF variable_id >= Len(d3) THEN [st EXCEPT !.status = "segv"]  \* defs[id] past the end
     ELSE [st EXCEPT !.w = w2, !.d = d4, !.p = st.p + 8,
                     !.member_ids = [@ EXCEPT ![mi + 1] = variable_id]]

\* the loop of lines 676-717 over the members of the struct
RECURSIVE expand_members(_, _, _)
expand_members(st, members, mi) ==
  IF mi >= Len(members) \/ st.status # "run" THEN st
  ELSE LET member == members[mi + 1]
           type_id == find_type_id(st.d, member[1], 0, 0)
       IN IF type_id = 0 THEN [st EXCEPT !.status = "assert"]    \* nassertv(type_id > 0)
          ELSE expand_members(member_pair(st, member, mi, type_id), members, mi + 1)

\* an access chain into the struct that keeps its first index (and the
\* struct variable as its base) when it has further indices
access_chain_keep_index(st) ==
  LET w == st.w
      p == st.p
      index == Def(st.d, Arg(w, p, 3)).constant
  IN IF NArgs(w, p) > 4
     THEN [st EXCEPT !.p = p + WCount(w, p)]
     ELSE [st EXCEPT !.deleted_access_chains =
                        MapPut(@, Arg(w, p, 1), st.member_ids[index + 1]),
                     !.w = erase(w, p)]

\* lines 724-736, for an access chain whose base is a deleted ID
access_chain(st) ==
  LET w == st.w
      p == st.p
      index == Def(st.d, Arg(w, p, 3)).constant
  IN IF index >= Len(st.member_ids) THEN [st EXCEPT !.status = "segv"]
     ELSE IF NArgs(w, p) > 4
     THEN LET w1 == erase_arg(SetArg(w, p, 2, st.member_ids[index + 1]), p, 3)
          IN [st EXCEPT !.w = w1, !.p = p + WCount(w1, p)]
     ELSE [st EXCEPT !.deleted_access_chains =
                        MapPut(@, Arg(w, p, 1), st.member_ids[index + 1]),
                     !.w = erase(w, p)]

\* lines 739-755 with the two assertions compiled out
load_or_copy_unchecked(st, i) ==
  LET w == st.w
      p == st.p
      ptr == Arg(w, p, i)
  IN IF ptr \in DOMAIN st.deleted_access_chains
     THEN [st EXCEPT !.w = SetArg(w, p, i, st.deleted_access_chains[ptr]),
                     !.p = p + WCount(w, p)]
     ELSE [st EXCEPT !.p = p + WCount(w, p)]

\* lines 739-755: OpLoad (i = 2) and OpCopyMemory (i = 1) with pointer operand i
load_or_copy(st, i) ==
  LET w == st.w
      p == st.p
      ptr == Arg(w, p, i)
  IN IF ptr \in st.deleted_ids THEN [st EXCEPT !.status = "assert"]   \* nassertv
     ELSE IF ptr \in DOMAIN st.deleted_access_chains
     THEN [st EXCEPT !.w = SetArg(w, p, i, st.deleted_access_chains[ptr]),
                     !.p = p + WCount(w, p)]
     ELSE [st EXCEPT !.p = p + WCount(w, p)]

\* one turn of the loop of lines 630-762
first_pass_step(st, type_id, members) ==
  LET w == st.w
      p == st.p
      opcode == Opcode(w, p)
      nargs == NArgs(w, p)
      next == [st EXCEPT !.p = p + WCount(w, p)]
  IN CASE opcode \in {SpvOpName, SpvOpMemberName, SpvOpDecorate, SpvOpMemberDecorate,
                      SpvOpTypeStruct} ->
            IF nargs >= 1 /\ Arg(w, p, 0) = type_id
            THEN [st EXCEPT !.w = erase(w, p)]
            ELSE next
       [] opcode = SpvOpTypePointer ->
            IF nargs >= 3 /\ Arg(w, p, 2) = type_id
            THEN [st EXCEPT !.deleted_ids = @ \cup {Arg(w, p, 0)}, !.w = erase(w, p)]
            ELSE next
       [] opcode = SpvOpVariable ->
            IF nargs >= 3 /\ Arg(w, p, 0) \in st.deleted_ids
            THEN expand_members(
                   [st EXCEPT !.deleted_ids = @ \cup {Arg(w, p, 1)}, !.w = erase(w, p)],
                   members, 0)
            ELSE next
       [] opcode \in {SpvOpAccessChain, SpvOpInBoundsAccessChain} ->
            IF Arg(w, p, 2) \in st.deleted_ids THEN access_chain(st) ELSE next
       [] opcode = SpvOpLoad -> load_or_copy(st, 2)
       [] opcode = SpvOpCopyMemory -> load_or_copy(st, 1)
       [] OTHER -> next

RECURSIVE first_pass(_, _, _)
first_pass(st, type_id, members) ==
  IF st.p > Len(st.w) \/ st.status # "run" THEN st
  ELSE first_pass(first_pass_step(st, type_id, members), type_id, members)

\* the loop of lines 770-781; erase()'s result is dropped there, and `it'
\* keeps its position, where the next instruction now is
RECURSIVE second_pass(_, _, _)
second_pass(w, p, deleted_ids) ==
  IF p > Len(w) THEN w
  ELSE IF /\ Opcode(w, p) \in {SpvOpName, SpvOpDecorate, SpvOpMemberName,
                               SpvOpMemberDecorate}
          /\ NArgs(w, p) >= 2
          /\ Arg(w, p, 0) \in deleted_ids
       THEN second_pass(erase(w, p), p, deleted_ids)
       ELSE second_pass(w, p + WCount(w, p), deleted_ids)

\* unwrap_uniform_block(defs, type_id): the new words and defs, the locals at
\* the return, and how it ended ("run": it returned)
unwrap_uniform_block(w, d, type_id) ==
  LET start == [w |-> w, d |-> d, p |-> 6, status |-> "run",
                deleted_ids |-> {}, deleted_access_chains |-> <<>>,
                member_ids |-> <<>>]
  IN IF ~IsStruct(Def(d, type_id).type) THEN start               \* DCAST_INTO_V
     ELSE LET members == Def(d, type_id).type[2]
              st == first_pass([start EXCEPT !.member_ids =
                                  [k \in 1..Len(members) |-> 0]],
                               type_id, members)
          IN IF st.status # "run" \/ st.deleted_ids = {} THEN st
             ELSE [st EXCEPT !.w = second_pass(st.w, 6, st.deleted_ids)]

NoLocals ==
  [type_id |-> 0, deleted_ids |-> {}, deleted_access_chains |-> <<>>,
   member_ids |-> <<>>]

\* the loop of lines 43-48: st is [w, d, locals, status]
RECURSIVE unwrap_globals(_, _)
unwrap_globals(st, id) ==
  IF id >= Len(st.d) \/ st.status # "run" THEN st
  ELSE IF Def(st.d, id).dtype = "DT_type" /\ Def(st.d, id).name = "$Global"
       THEN LET r == unwrap_uniform_block(st.w, st.d, id)
            IN unwrap_globals(
                 [w |-> r.w, d |-> r.d, status |-> r.status,
                  locals |-> [type_id |-> id, deleted_ids |-> r.deleted_ids,
                              deleted_access_chains |-> r.deleted_access_chains,
                              member_ids |-> r.member_ids]],
                 id + 1)
       ELSE unwrap_globals(st, id + 1)

---------------------------------------------------------------------------
(* BitArray: the set of the bits that are on; every bit above is off. *)

set_bit(B, i) == B \cup {i}
set_range(B, low, size) == B \cup (low .. (low + size - 1))
get_bit(B, i) == i \in B
has_any_of(B, low, size) == \E i \in low .. (low + size - 1) : i \in B

get_lowest_off_bit(B) ==
  CHOOSE i \in 0 .. Cardinality(B) : i \notin B /\ \A j \in 0 .. (i - 1) : j \in B

\* the next bit above low_bit whose value differs from low_bit's; low_bit
\* again when there is none
get_next_higher_different_bit(B, low_bit) ==
  IF low_bit \in B
  THEN CHOOSE i \in (low_bit + 1) .. (low_bit + Cardinality(B) + 1) :
         i \notin B /\ \A j \in (low_bit + 1) .. (i - 1) : j \in B
  ELSE IF \E i \in B : i > low_bit
       THEN CHOOSE i \in B : i > low_bit /\ \A j \in B : j > low_bit => i <= j
       ELSE low_bit

---------------------------------------------------------------------------
(* assign_locations() (lines 448-581). *)

IsIOClass(storage_class) ==
  storage_class \in {SpvStorageClassInput, SpvStorageClassOutput,
                     SpvStorageClassUniformConstant}

\* the condition of lines 514-516 with the storage classes of lines 518-573
needs_location(def) ==
  /\ def.dtype = "DT_variable"
  /\ def.location < 0
  /\ def.builtin = SpvBuiltInMax
  /\ IsIOClass(def.storage_class)

\* the bits the scan of lines 456-477 sets for one storage class
scanned_locations(d, storage_class) ==
  UNION { IF storage_class = SpvStorageClassUniformConstant
          THEN d[i].location ..
                 (d[i].location - 1 +
                    (IF IsNull(d[i].type) THEN 1
                     ELSE get_num_parameter_locations(d[i].type)))
          ELSE {d[i].location}
        : i \in { j \in DOMAIN d : /\ d[j].dtype = "DT_variable"
                                   /\ d[j].location >= 0
                                   /\ d[j].storage_class = storage_class } }

\* the opcodes the loop of lines 486-509 steps over
is_annotation_opcode(opcode) ==
  opcode \in {SpvOpNop, SpvOpCapability, SpvOpExtension, SpvOpExtInstImport,
              SpvOpMemoryModel, SpvOpEntryPoint, SpvOpExecutionMode, SpvOpString,
              SpvOpSourceExtension, SpvOpSource, SpvOpSourceContinued, SpvOpName,
              SpvOpMemberName, SpvOpModuleProcessed, SpvOpDecorate,
              SpvOpMemberDecorate, SpvOpGroupDecorate, SpvOpGroupMemberDecorate,
              SpvOpDecorationGroup}

\* where the loop of lines 486-509 leaves `it'
RECURSIVE end_of_annotations(_, _)
end_of_annotations(w, p) ==
  IF p > Len(w) \/ ~is_annotation_opcode(Opcode(w, p)) THEN p
  ELSE end_of_annotations(w, p + WCount(w, p))

\* an input allocation without the vertex-stage rule of lines 519-528
input_location_lowest(st_stage, name, input_locations) ==
  get_lowest_off_bit(input_locations)

\* lines 519-531
input_location(st_stage, name, input_locations) ==
  IF st_stage = "vertex" /\ ~get_bit(input_locations, 0)
  THEN IF name \in {"vertex", "p3d_Vertex", "vtx_position"} THEN 0
       ELSE IF ~get_bit(input_locations, 1) THEN 1
       ELSE get_next_higher_different_bit(input_locations, 1)
  ELSE get_lowest_off_bit(input_locations)

\* a uniform allocation that takes the lowest free bit whatever the size
uniform_location_lowest(uniform_locations, location, num_locations) == location

\* the loop of lines 551-557, from the location of line 550
RECURSIVE uniform_location(_, _, _)
uniform_location(uniform_locations, location, num_locations) ==
  IF num_locations > 1 /\ has_any_of(uniform_locations, location, num_locations)
  THEN LET next_bit == get_next_higher_different_bit(uniform_locations, location)
       IN uniform_location(uniform_locations,
            get_next_higher_different_bit(uniform_locations, next_bit),
            num_locations)
  ELSE location

\* an assignment that sets the Definition's location and inserts no decoration
assign_one_no_decoration(st, id, location) ==
  [st EXCEPT !.d = Put(st.d, id, [Def(st.d, id) EXCEPT !.location = location])]

\* lines 575-578 without the ++it of line 578: the next decoration goes in
\* front of this one
assign_one_no_advance(st, id, location) ==
  [st EXCEPT !.d = Put(st.d, id, [Def(st.d, id) EXCEPT !.location = location]),
             !.w = insert(st.w, st.p, SpvOpDecorate,
                          <<id, SpvDecorationLocation, location>>)]

\* lines 575-578
assign_one(st, id, location) ==
  [st EXCEPT !.d = Put(st.d, id, [Def(st.d, id) EXCEPT !.location = location]),
             !.w = insert(st.w, st.p, SpvOpDecorate,
                          <<id, SpvDecorationLocation, location>>),
             !.p = st.p + 4]

\* the loop of lines 512-580; null_call is what the call through the null
\* _type of line 549 does: -1 faults, another value is what it returns
RECURSIVE assign_loop(_, _, _, _)
assign_loop(st, id, st_stage, null_call) ==
  IF id >= Len(st.d) \/ st.status # "run" THEN st
  ELSE LET def == Def(st.d, id)
       IN IF ~( /\ def.dtype = "DT_variable"
                /\ def.location < 0
                /\ def.builtin = SpvBuiltInMax )
          THEN assign_loop(st, id + 1, st_stage, null_call)
          ELSE
            CASE def.storage_class = SpvStorageClassInput ->
                   LET location == input_location(st_stage, def.name, st.input_locations)
                   IN assign_loop(
                        assign_one([st EXCEPT !.input_locations = set_bit(@, location)],
                                   id, location),
                        id + 1, st_stage, null_call)
              [] def.storage_class = SpvStorageClassOutput ->
                   LET location == get_lowest_off_bit(st.output_locations)
                   IN assign_loop(
                        assign_one([st EXCEPT !.output_locations = set_bit(@, location)],
                                   id, location),
                        id + 1, st_stage, null_call)
              [] def.storage_class = SpvStorageClassUniformConstant ->
                   IF IsNull(def.type) /\ null_call < 0
                   THEN [st EXCEPT !.status = "segv"]
                   ELSE LET num_locations ==
                              IF IsNull(def.type) THEN null_call
                              ELSE get_num_parameter_locations(def.type)
                            location ==
                              uniform_location(st.uniform_locations,
                                get_lowest_off_bit(st.uniform_locations), num_locations)
                        IN assign_loop(
                             assign_one([st EXCEPT !.uniform_locations =
                                           set_range(@, location, num_locations)],
                                        id, location),
                             id + 1, st_stage, null_call)
              [] OTHER -> assign_loop(st, id + 1, st_stage, null_call)

\* assign_locations(defs): [w, d, status]
assign_locations(w, d, st_stage, null_call) ==
  IF ~(\E i \in DOMAIN d : needs_location(d[i]))
  THEN [w |-> w, d |-> d, status |-> "run"]
  ELSE LET st == assign_loop(
                   [w |-> w, d |-> d, status |-> "run",
                    p |-> end_of_annotations(w, 6),
                    input_locations |-> scanned_locations(d, SpvStorageClassInput),
                    output_locations |-> scanned_locations(d, SpvStorageClassOutput),
                    uniform_locations |->
                      scanned_locations(d, SpvStorageClassUniformConstant)],
                   0, st_stage, null_call)
       IN [w |-> st.w, d |-> st.d, status |-> st.status]

---------------------------------------------------------------------------
(* The lists of the constructor (lines 54-73). *)

Variable(def) == [type |-> def.type, name |-> def.name, location |-> def.location]

\* the lists without the test that leaves built-in variables out
RECURSIVE published_with_builtins(_, _, _)
published_with_builtins(d, id, storage_class) ==
  IF id >= Len(d) THEN <<>>
  ELSE (IF /\ Def(d, id).dtype = "DT_variable"
           /\ Def(d, id).storage_class = storage_class
        THEN <<Variable(Def(d, id))>> ELSE <<>>)
       \o published_with_builtins(d, id + 1, storage_class)

RECURSIVE published(_, _, _)
published(d, id, storage_class) ==
  IF id >= Len(d) THEN <<>>
  ELSE (IF /\ Def(d, id).dtype = "DT_variable"
           /\ Def(d, id).builtin = SpvBuiltInMax
           /\ Def(d, id).storage_class = storage_class
        THEN <<Variable(Def(d, id))>> ELSE <<>>)
       \o published(d, id + 1, storage_class)

---------------------------------------------------------------------------
(* remap_locations(), link_inputs(), remap_parameter_locations(). *)

\* lines 593-612: decorations maps an ID to the position of the location
\* word of its last OpDecorate Location
RECURSIVE remap_locations_loop(_, _, _, _, _)
remap_locations_loop(w, p, storage_class, locations, decorations) ==
  IF p > Len(w) THEN w
  ELSE LET next == p + WCount(w, p)
       IN IF Opcode(w, p) = SpvOpDecorate
          THEN IF Arg(w, p, 1) = SpvDecorationLocation /\ NArgs(w, p) >= 3
               THEN remap_locations_loop(w, next, storage_class, locations,
                      MapPut(decorations, Arg(w, p, 0), p + 3))
               ELSE remap_locations_loop(w, next, storage_class, locations, decorations)
          ELSE IF /\ Opcode(w, p) = SpvOpVariable
                  /\ Arg(w, p, 2) = storage_class
                  /\ Arg(w, p, 1) \in DOMAIN decorations
                  /\ w[decorations[Arg(w, p, 1)]] \in DOMAIN locations
          THEN remap_locations_loop(
                 [w EXCEPT ![decorations[Arg(w, p, 1)]] = locations[@]],
                 next, storage_class, locations, decorations)
          ELSE remap_locations_loop(w, next, storage_class, locations, decorations)

\* a remap that does not stop at the storage class asked for: the inputs are
\* remapped as well
remap_locations_inputs_too(w, storage_class, locations) ==
  remap_locations_loop(remap_locations_loop(w, 6, storage_class, locations, <<>>),
                       6, SpvStorageClassInput, locations, <<>>)

remap_locations(w, storage_class, locations) ==
  remap_locations_loop(w, 6, storage_class, locations, <<>>)

StageOrder(s) ==
  CASE s = "vertex" -> 0 [] s = "tess_control" -> 1 [] s = "tess_evaluation" -> 2
    [] s = "geometry" -> 3 [] s = "fragment" -> 4 [] s = "compute" -> 5

has_location(var) == var.location >= 0

\* ShaderModule::find_output(name): the index of the output, -1 when none
find_output(outs, name) ==
  IF \E i \in DOMAIN outs : outs[i].name = name
  THEN (CHOOSE i \in DOMAIN outs :
          outs[i].name = name /\ \A j \in 1 .. (i - 1) : outs[j].name # name) - 1
  ELSE -1

\* the loop of lines 117-137: [ok, map]
RECURSIVE link_loop(_, _, _, _)
link_loop(ins, k, outs, location_remap) ==
  IF k > Len(ins) THEN [ok |-> TRUE, map |-> location_remap]
  ELSE LET input == ins[k]
           i == find_output(outs, input.name)
       IN IF i < 0 THEN [ok |-> FALSE, map |-> location_remap]
          ELSE LET output == outs[i + 1]
               IN IF ~has_location(output) THEN [ok |-> FALSE, map |-> location_remap]
                  ELSE link_loop(ins, k + 1, outs,
                         IF ~has_location(input) \/ output.location # input.location
                         THEN MapPut(location_remap, input.location, output.location)
                         ELSE location_remap)

\* a link that rewrites the bytecode with the map built so far, also when an
\* input fails to match
link_inputs_eager(w, ins, st_stage, previous) ==
  IF ~previous.is_spirv THEN [ok |-> FALSE, w |-> w]
  ELSE IF StageOrder(previous.stage) >= StageOrder(st_stage) THEN [ok |-> FALSE, w |-> w]
  ELSE LET r == link_loop(ins, 1, previous.outputs, <<>>)
       IN [ok |-> r.ok,
           w |-> IF DOMAIN r.map # {}
                 THEN remap_locations(w, SpvStorageClassInput, r.map) ELSE w]

\* link_inputs(previous) (lines 104-143): [ok, w]
link_inputs(w, ins, st_stage, previous) ==
  IF ~previous.is_spirv THEN [ok |-> FALSE, w |-> w]
  ELSE IF StageOrder(previous.stage) >= StageOrder(st_stage) THEN [ok |-> FALSE, w |-> w]
  ELSE LET r == link_loop(ins, 1, previous.outputs, <<>>)
       IN IF ~r.ok THEN [ok |-> FALSE, w |-> w]
          ELSE [ok |-> TRUE,
                w |-> IF DOMAIN r.map # {}
                      THEN remap_locations(w, SpvStorageClassInput, r.map) ELSE w]

\* lines 154-161
remapped_parameters(params, locations) ==
  [k \in DOMAIN params |->
     IF has_location(params[k]) /\ params[k].location \in DOMAIN locations
     THEN [params[k] EXCEPT !.location = locations[@]]
     ELSE params[k]]

---------------------------------------------------------------------------
(* The input modules.  A module is encoded into the words the constructor  *)
(* is given; nothing below reads the description again.                    *)

Stages == {"vertex", "fragment"}

ExecutionModel(st_stage) ==
  IF st_stage = "vertex" THEN Other.ExecutionModelVertex
  ELSE Other.ExecutionModelFragment

\* the IDs every module declares: float, uint, the constant 2, float[2], a
\* runtime array of float (a type parse_instruction does not read), main
TemplateIds == [Float |-> 1, Uint |-> 2, Two |-> 3, Array |-> 4, RuntimeArray |-> 5,
                Main |-> 6]
FloatId == TemplateIds.Float
UintId == TemplateIds.Uint
TwoId == TemplateIds.Two
ArrayId == TemplateIds.Array
RuntimeArrayId == TemplateIds.RuntimeArray
MainId == TemplateIds.Main

Preamble(st_stage, main) ==
  Instr(SpvOpCapability, <<1>>)
  \o Instr(SpvOpMemoryModel, <<SpvAddressingModelLogical, SpvMemoryModelGLSL450>>)
  \o Instr(SpvOpEntryPoint, <<ExecutionModel(st_stage), main, StrWord("main")>>)
  \o Instr(SpvOpSource, <<2, 450>>)

BasicTypes ==
  Instr(SpvOpTypeFloat, <<FloatId, 32>>)
  \o Instr(SpvOpTypeInt, <<UintId, 32, 0>>)
  \o Instr(SpvOpConstant, <<UintId, TwoId, 2>>)
  \o Instr(SpvOpTypeArray, <<ArrayId, FloatId, TwoId>>)

(* A module of plain variables: variable i (from 1) is named StrTable[i],  *)
(* has pointer type PtrId(i) and ID VarId(i).                              *)

PtrId(i) == MainId + 2 * i - 1
VarId(i) == MainId + 2 * i

TypeIdOf(ty) ==
  CASE ty = "float" -> FloatId [] ty = "array" -> ArrayId
    [] ty = "unresolved" -> RuntimeArrayId

Locs == 0 .. MaxLoc

\* the variables of a module of inputs and outputs
IOKinds ==
  [sc : {SpvStorageClassInput, SpvStorageClassOutput}, ty : {"float"},
   loc : {-1} \cup Locs, builtin : {FALSE}]
  \cup [sc : {SpvStorageClassInput}, ty : {"float"}, loc : {-1}, builtin : {TRUE}]

\* the variables of a module of uniforms
UniformKinds ==
  [sc : {SpvStorageClassUniformConstant}, ty : {"float", "array"},
   loc : {-1} \cup Locs, builtin : {FALSE}]
  \cup [sc : {SpvStorageClassUniformConstant}, ty : {"unresolved"},
        loc : {-1, 0}, builtin : {FALSE}]
  \cup [sc : {SpvStorageClassPrivate}, ty : {"float"}, loc : {-1}, builtin : {FALSE}]

\* the variables of a module of inputs, outputs and uniforms
MixedKinds ==
  [sc : {SpvStorageClassInput, SpvStorageClassUniformConstant}, ty : {"float"},
   loc : {-1, 0}, builtin : {FALSE}]
  \cup [sc : {SpvStorageClassOutput}, ty : {"float"}, loc : {-1}, builtin : {FALSE}]

\* the variables a module of the linker specification declares
LinkKinds ==
  [sc : {SpvStorageClassInput}, ty : {"float"}, loc : {-1} \cup Locs,
   builtin : {FALSE}]
  \cup [sc : {SpvStorageClassUniformConstant, SpvStorageClassOutput}, ty : {"float"},
        loc : {-1}, builtin : {FALSE}]

VarAnnotations(vs, i) ==
  Instr(SpvOpName, <<VarId(i), i>>)
  \o (IF vs[i].builtin THEN Instr(SpvOpDecorate, <<VarId(i), SpvDecorationBuiltIn, 0>>)
      ELSE <<>>)
  \o (IF vs[i].loc >= 0
      THEN Instr(SpvOpDecorate, <<VarId(i), SpvDecorationLocation, vs[i].loc>>)
      ELSE <<>>)

VarDeclaration(vs, i) ==
  Instr(SpvOpTypePointer, <<PtrId(i), vs[i].sc, TypeIdOf(vs[i].ty)>>)
  \o Instr(SpvOpVariable, <<PtrId(i), VarId(i), vs[i].sc>>)

PlainModule(st_stage, vs) ==
  Header(VarId(Len(vs)) + 1)
  \o Preamble(st_stage, MainId)
  \o Flatten([i \in 1 .. Len(vs) |-> VarAnnotations(vs, i)])
  \o BasicTypes
  \o Instr(Other.OpTypeRuntimeArray, <<RuntimeArrayId, FloatId>>)
  \o Flatten([i \in 1 .. Len(vs) |-> VarDeclaration(vs, i)])

(* A module with a "$Global" block of M members, member k (from 0) named   *)
(* "m<k>", of type float when k is even and float[2] when k is odd, and a  *)
(* function that uses it.                                                  *)

IndexId(k) == 5 + k
StructId(M) == 5 + M
StructPtrId(M) == 6 + M
GlobalVarId(M) == 7 + M
VoidId(M) == 8 + M
FnTypeId(M) == 9 + M
GlobalMainId(M) == 10 + M
LabelId(M) == 11 + M
FloatPtrId(M) == 12 + M
ArrayPtrId(M) == 13 + M
PrivatePtrId(M) == 14 + M
TmpVarId(M) == 15 + M
ChainId(M, j) == 14 + M + 2 * j
LoadId(M, j) == 15 + M + 2 * j

MemberTypeId(k) == IF k % 2 = 0 THEN FloatId ELSE ArrayId
MemberPtrId(M, k) == IF k % 2 = 0 THEN FloatPtrId(M) ELSE ArrayPtrId(M)
MemberName(k) == StrWord("m0") + k

\* "load": a one-index access chain and a load of its result; "deep": a
\* two-index access chain and a load; "copy": a one-index in-bounds access
\* chain and a copy from its result; "direct": a load of the struct variable
UseKinds(M) ==
  [kind : {"load", "deep"}, k : 0 .. (M - 1)]
  \cup {[kind |-> "copy", k |-> M - 1], [kind |-> "direct", k |-> 0]}

\* "direct_copy": a copy from the struct variable, alone or followed by a
\* use through an access chain
DirectCopyUses(M) ==
  {<<[kind |-> "direct_copy", k |-> 0]>>}
  \cup {<<[kind |-> "direct_copy", k |-> 0], u>> :
          u \in [kind : {"load", "copy"}, k : {M - 1}]}

Use(M, u, j) ==
  CASE u.kind = "load" ->
         Instr(SpvOpAccessChain,
               <<MemberPtrId(M, u.k), ChainId(M, j), GlobalVarId(M), IndexId(u.k)>>)
         \o Instr(SpvOpLoad, <<MemberTypeId(u.k), LoadId(M, j), ChainId(M, j)>>)
    [] u.kind = "deep" ->
         Instr(SpvOpAccessChain,
               <<FloatPtrId(M), ChainId(M, j), GlobalVarId(M), IndexId(u.k), IndexId(0)>>)
         \o Instr(SpvOpLoad, <<FloatId, LoadId(M, j), ChainId(M, j)>>)
    [] u.kind = "copy" ->
         Instr(SpvOpInBoundsAccessChain,
               <<MemberPtrId(M, u.k), ChainId(M, j), GlobalVarId(M), IndexId(u.k)>>)
         \o Instr(SpvOpCopyMemory, <<TmpVarId(M), ChainId(M, j)>>)
    [] u.kind = "direct" ->
         Instr(SpvOpLoad, <<StructId(M), LoadId(M, j), GlobalVarId(M)>>)
    [] u.kind = "direct_copy" ->
         Instr(SpvOpCopyMemory, <<TmpVarId(M), GlobalVarId(M)>>)

GlobalModule(st_stage, M, sc, uses) ==
  Header(LoadId(M, Len(uses)) + 1)
  \o Preamble(st_stage, GlobalMainId(M))
  \o Instr(SpvOpName, <<StructId(M), StrWord("$Global")>>)
  \o Flatten([k \in 1 .. M |->
                Instr(SpvOpMemberName, <<StructId(M), k - 1, MemberName(k - 1)>>)])
  \o Instr(SpvOpName, <<GlobalVarId(M), StrWord("gv")>>)
  \o Instr(SpvOpDecorate, <<StructId(M), Other.DecorationBlock>>)
  \o Flatten([k \in 1 .. M |->
                Instr(SpvOpMemberDecorate,
                      <<StructId(M), k - 1, Other.DecorationOffset, 16 * (k - 1)>>)])
  \o Instr(SpvOpDecorate, <<GlobalVarId(M), Other.DecorationDescriptorSet, 0>>)
  \o Instr(SpvOpDecorate, <<GlobalVarId(M), Other.DecorationBinding, 0>>)
  \o BasicTypes
  \o Flatten([k \in 1 .. M |-> Instr(SpvOpConstant, <<UintId, IndexId(k - 1), k - 1>>)])
  \o Instr(SpvOpTypeStruct, <<StructId(M)>> \o [k \in 1 .. M |-> MemberTypeId(k - 1)])
  \o Instr(SpvOpTypePointer, <<StructPtrId(M), sc, StructId(M)>>)
  \o Instr(SpvOpVariable, <<StructPtrId(M), GlobalVarId(M), sc>>)
  \o Instr(SpvOpTypeVoid, <<VoidId(M)>>)
  \o Instr(Other.OpTypeFunction, <<FnTypeId(M), VoidId(M)>>)
  \o Instr(SpvOpTypePointer, <<FloatPtrId(M), SpvStorageClassUniform, FloatId>>)
  \o Instr(SpvOpTypePointer, <<ArrayPtrId(M), SpvStorageClassUniform, ArrayId>>)
  \o Instr(SpvOpTypePointer, <<PrivatePtrId(M), SpvStorageClassPrivate, FloatId>>)
  \o Instr(SpvOpVariable, <<PrivatePtrId(M), TmpVarId(M), SpvStorageClassPrivate>>)
  \o Instr(Other.OpFunction, <<VoidId(M), GlobalMainId(M), 0, FnTypeId(M)>>)
  \o Instr(Other.OpLabel, <<LabelId(M)>>)
  \o Flatten([j \in 1 .. Len(uses) |-> Use(M, uses[j], j)])
  \o Instr(Other.OpReturn, <<>>)
  \o Instr(Other.OpFunctionEnd, <<>>)

(* A module with one defective instruction: a plain module of one Input     *)
(* variable, named "color", in which either the memory model is not        *)
(* GLSL450, or the variable is declared with a type that is no pointer, or *)
(* a composite type DefectId is declared over an ID that carries no type   *)
(* where the declaration is parsed: the runtime array, which               *)
(* parse_instruction never reads, or LateId, a float declared after it.    *)

DefectId == VarId(1) + 1
LateId == VarId(1) + 2

Composites == {SpvOpTypeVector, SpvOpTypeMatrix, SpvOpTypeArray, SpvOpTypeStruct}

DefectKinds ==
  [op : {SpvOpMemoryModel, SpvOpVariable}, over : {FloatId}, ty : {"float"}]
  \cup [op : Composites, over : {RuntimeArrayId, LateId}, ty : {"float", "defect"}]

DefectInstr(k) ==
  CASE k.op = SpvOpTypeVector -> Instr(SpvOpTypeVector, <<DefectId, k.over, 2>>)
    [] k.op = SpvOpTypeMatrix -> Instr(SpvOpTypeMatrix, <<DefectId, k.over, 2>>)
    [] k.op = SpvOpTypeArray -> Instr(SpvOpTypeArray, <<DefectId, k.over, TwoId>>)
    [] k.op = SpvOpTypeStruct -> Instr(SpvOpTypeStruct, <<DefectId, k.over>>)
    [] OTHER -> <<>>

DefectModule(st_stage, k) ==
  Header(LateId + 1)
  \o Instr(SpvOpCapability, <<1>>)
  \o Instr(SpvOpMemoryModel,
           <<SpvAddressingModelLogical,
             IF k.op = SpvOpMemoryModel THEN 0 ELSE SpvMemoryModelGLSL450>>)
  \o Instr(SpvOpEntryPoint, <<ExecutionModel(st_stage), MainId, StrWord("main")>>)
  \o Instr(SpvOpName, <<VarId(1), StrWord("color")>>)
  \o Instr(SpvOpMemberName, <<DefectId, 0, StrWord("m0")>>)
  \o BasicTypes
  \o Instr(Other.OpTypeRuntimeArray, <<RuntimeArrayId, FloatId>>)
  \o DefectInstr(k)
  \o Instr(SpvOpTypeFloat, <<LateId, 32>>)
  \o Instr(SpvOpTypePointer,
           <<PtrId(1), SpvStorageClassInput,
             IF k.ty = "defect" THEN DefectId ELSE FloatId>>)
  \o Instr(SpvOpVariable,
           <<IF k.op = SpvOpVariable THEN FloatId ELSE PtrId(1), VarId(1),
             SpvStorageClassInput>>)

\* the instructions of the streams of the stream specification: every
\* opcode strip() drops, and instructions it keeps whose words look like them
StripPool ==
  { Instr(SpvOpNop, <<>>), Instr(SpvOpSourceContinued, <<1>>),
    Instr(SpvOpSource, <<2, 450>>), Instr(SpvOpSourceExtension, <<1>>),
    Instr(SpvOpName, <<1, 2>>), Instr(SpvOpMemberName, <<1, 0, 3>>),
    Instr(SpvOpString, <<1, 2>>), Instr(SpvOpLine, <<1, 1, 1>>),
    Instr(SpvOpNoLine, <<>>), Instr(SpvOpModuleProcessed, <<1>>),
    Instr(SpvOpCapability, <<1>>), Instr(SpvOpTypeFloat, <<SpvOpName, SpvOpLine>>),
    Instr(SpvOpDecorate, <<1, SpvDecorationLocation, 0>>),
    Instr(Other.OpGroupAll, <<>>) }

\* the previous modules link_inputs() is given: outputs named "vertex" and
\* "color", each absent (-2), without a location (-1) or with one
PrevLocs == -1 .. MaxLoc

PrevOutputs(a, b) ==
  (IF a >= -1 THEN <<[type |-> ScalarType("float"), name |-> "vertex", location |-> a]>>
   ELSE <<>>)
  \o (IF b >= -1 THEN <<[type |-> ScalarType("float"), name |-> "color", location |-> b]>>
      ELSE <<>>)

NoPrevious == [is_spirv |-> FALSE, stage |-> "vertex", outputs |-> <<>>]

PrevModules ==
  { [is_spirv |-> TRUE, stage |-> "vertex", outputs |-> PrevOutputs(a, b)] :
      a \in {-2} \cup PrevLocs, b \in {-2} \cup PrevLocs }
  \cup { [is_spirv |-> TRUE, stage |-> "fragment", outputs |-> PrevOutputs(0, 1)],
         NoPrevious }

\* the maps remap_parameter_locations() is given
ParamMaps ==
  { [x \in {0} |-> 1], [x \in {0, 1} |-> 1 - x], [x \in {1} |-> 2] }

\* what the call through a null _type can do: fault (-1) or return a value
NullCallOutcomes == {-1, 0, 1, 2}

---------------------------------------------------------------------------
(* The state machine. *)

NoPre == [words |-> <<>>, defs |-> <<>>]

\* the module before its constructor runs, given the words and the stage
Constructing(w, st_stage) ==
  /\ pc = "start"
  /\ words = w
  /\ stage = st_stage
  /\ defs = <<>>
  /\ inputs = <<>>
  /\ outputs = <<>>
  /\ parameters = <<>>
  /\ nparsed = 0
  /\ src = w
  /\ pre = NoPre
  /\ locals = NoLocals
  /\ fault = "none"
  /\ prev = NoPrevious
  /\ result = "none"
  /\ nstrips = 0

Init ==
  \/ \E st_stage \in Stages, vs \in SeqsUpTo(IOKinds, MaxVars) :
       Constructing(PlainModule(st_stage, vs), st_stage)
  \/ \E vs \in SeqsUpTo(UniformKinds, MaxVars) :
       Constructing(PlainModule("fragment", vs), "fragment")
  \/ \E vs \in SeqsUpTo(MixedKinds, MaxVars) :
       Constructing(PlainModule("vertex", vs), "vertex")
  \/ \E M \in 1 .. MaxMembers,
        sc \in {SpvStorageClassUniform, SpvStorageClassUniformConstant} :
       \E uses \in SeqsUpTo(UseKinds(M), MaxUses) \cup DirectCopyUses(M) :
         Constructing(GlobalModule("fragment", M, sc, uses), "fragment")
  \/ \E n \in 0 .. 4 : Constructing(SubSeq(Header(1), 1, n), "vertex")
  \/ \E vs \in SeqsUpTo(MixedKinds, 1) :
       Constructing([PlainModule("vertex", vs) EXCEPT ![1] = Other.BadMagic], "vertex")
  \/ \E st_stage \in Stages, k \in DefectKinds :
       Constructing(DefectModule(st_stage, k), st_stage)

\* lines 34-39
Parse ==
  /\ pc = "start"
  /\ LET r == parse(words, defs)
     IN /\ pc' = IF r.fault THEN "parse_aborted" ELSE IF r.ok THEN "parsed" ELSE "invalid"
        /\ fault' = IF r.fault THEN "segv" ELSE fault
        /\ defs' = r.defs
        /\ nparsed' = r.n
  /\ pre' = [words |-> words, defs |-> defs]
  /\ UNCHANGED <<words, stage, inputs, outputs, parameters, src, locals, prev,
                 result, nstrips>>

\* lines 41-48
Unwrap ==
  /\ pc = "parsed"
  /\ LET st == unwrap_globals([w |-> words, d |-> defs, status |-> "run",
                               locals |-> NoLocals], 0)
     IN /\ pc' = IF st.status = "run" THEN "unwrapped" ELSE "unwrap_aborted"
        /\ fault' = IF st.status = "run" THEN fault ELSE st.status
        /\ words' = st.w
        /\ defs' = st.d
        /\ locals' = st.locals
  /\ pre' = [words |-> words, defs |-> defs]
  /\ UNCHANGED <<stage, inputs, outputs, parameters, nparsed, src, prev, result,
                 nstrips>>

\* lines 50-51
AssignLocations ==
  /\ pc = "unwrapped"
  /\ \E null_call \in NullCallOutcomes :
       LET r == assign_locations(words, defs, stage, null_call)
       IN /\ pc' = IF r.status = "run" THEN "assigned" ELSE "assign_aborted"
          /\ fault' = IF r.status = "run" THEN fault ELSE r.status
          /\ words' = r.w
          /\ defs' = r.d
  /\ pre' = [words |-> words, defs |-> defs]
  /\ UNCHANGED <<stage, inputs, outputs, parameters, nparsed, src, locals, prev,
                 result, nstrips>>

\* lines 53-73
Publish ==
  /\ pc = "assigned"
  /\ pc' = "published"
  /\ inputs' = published(defs, 0, SpvStorageClassInput)
  /\ outputs' = published(defs, 0, SpvStorageClassOutput)
  /\ parameters' = published(defs, 0, SpvStorageClassUniformConstant)
  /\ pre' = [words |-> words, defs |-> defs]
  /\ UNCHANGED <<words, defs, stage, nparsed, src, locals, fault, prev, result,
                 nstrips>>

\* lines 75-77 and 787-790
Strip ==
  /\ pc = "published"
  /\ pc' = "ready"
  /\ words' = strip(words)
  /\ pre' = [words |-> words, defs |-> defs]
  /\ UNCHANGED <<defs, stage, inputs, outputs, parameters, nparsed, src, locals,
                 fault, prev, result, nstrips>>

\* the constructor, step by step; no other operation can run before "ready"
Next == Parse \/ Unwrap \/ AssignLocations \/ Publish \/ Strip

Spec == Init /\ [][Next]_vars

(* The public operations on a constructed, valid module. *)

LinkInputs ==
  /\ pc = "ready"
  /\ \E previous \in PrevModules :
       LET r == link_inputs(words, inputs, stage, previous)
       IN /\ words' = r.w
          /\ result' = IF r.ok THEN "true" ELSE "false"
          /\ prev' = previous
  /\ UNCHANGED <<pc, defs, stage, inputs, outputs, parameters, nparsed, src, pre,
                 locals, fault, nstrips>>

RemapParameterLocations ==
  /\ pc = "ready"
  /\ \E locations \in ParamMaps :
       /\ words' = remap_locations(words, SpvStorageClassUniformConstant, locations)
       /\ parameters' = remapped_parameters(parameters, locations)
  /\ result' = "void"
  /\ UNCHANGED <<pc, defs, stage, inputs, outputs, nparsed, src, pre, locals,
                 fault, prev, nstrips>>

InitLink ==
  \E vs \in SeqsUpTo(LinkKinds, MaxVars) :
    Constructing(PlainModule("fragment", vs), "fragment")

NextLink == Next \/ LinkInputs

SpecLink == InitLink /\ [][NextLink]_vars

\* the modules of the linker specification and the "$Global" modules with no
\* use of the block
InitRemap ==
  \/ InitLink
  \/ \E M \in 1 .. MaxMembers,
        sc \in {SpvStorageClassUniform, SpvStorageClassUniformConstant} :
       Constructing(GlobalModule("fragment", M, sc, <<>>), "fragment")

NextRemap == Next \/ RemapParameterLocations

SpecRemap == InitRemap /\ [][NextRemap]_vars

(* InstructionStream::strip() on its own, called on a stream repeatedly. *)

InitStream ==
  \E is \in SeqsUpTo(StripPool, MaxInstr) :
    /\ Constructing(Header(8) \o Flatten(is), "vertex")

StripStream ==
  /\ pc = "start"
  /\ nstrips < MaxStrips
  /\ words' = strip(words)
  /\ nstrips' = nstrips + 1
  /\ pre' = [words |-> words, defs |-> defs]
  /\ UNCHANGED <<pc, defs, stage, inputs, outputs, parameters, nparsed, src,
                 locals, fault, prev, result>>

NextStream == StripStream

SpecStrip == InitStream /\ [][NextStream]_vars

---------------------------------------------------------------------------
(* Reading a stream back: the instructions as sequences of words, and the  *)
(* operands of an instruction that are IDs.                                *)

RECURSIVE InstrsFrom(_, _)
InstrsFrom(w, p) ==
  IF p > Len(w) THEN <<>>
  ELSE <<SubSeq(w, p, p + WCount(w, p) - 1)>> \o InstrsFrom(w, p + WCount(w, p))

InstrsOf(w) == InstrsFrom(w, 6)

OpcodeOf(instr) == instr[1] % TwoTo16
ArgsOf(instr) == Tail(instr)

\* the opcodes the specification calls debug instructions
DebugOpcodes ==
  {SpvOpNop, SpvOpSource, SpvOpSourceContinued, SpvOpSourceExtension, SpvOpName,
   SpvOpMemberName, SpvOpString, SpvOpLine, SpvOpNoLine, SpvOpModuleProcessed}

KeptByStrip(instr) == OpcodeOf(instr) \notin DebugOpcodes

(* C1: strip() returns the same five header words followed by exactly the  *)
(* instructions of the original whose opcode is not Nop, Source,           *)
(* SourceContinued, SourceExtension, Name, MemberName, String, Line,       *)
(* NoLine or ModuleProcessed, in their original order, every word          *)
(* unchanged; no instruction with one of those opcodes is kept.            *)
C1_StripKeepsExactlyNonDebug ==
  nstrips >= 1 =>
    /\ Len(words) >= 5
    /\ SubSeq(words, 1, 5) = SubSeq(pre.words, 1, 5)
    /\ InstrsOf(words) = SelectSeq(InstrsOf(pre.words), KeptByStrip)
    /\ \A i \in 1 .. Len(InstrsOf(words)) : KeptByStrip(InstrsOf(words)[i])

\* a stream with a debug instruction between two kept ones has been stripped
C1_Witness ==
  /\ nstrips = 1
  /\ Len(InstrsOf(words)) >= 2
  /\ \E i \in 2 .. (Len(InstrsOf(src)) - 1) :
       /\ OpcodeOf(InstrsOf(src)[i]) = SpvOpLine
       /\ KeptByStrip(InstrsOf(src)[i - 1])
       /\ KeptByStrip(InstrsOf(src)[i + 1])

(* C2: stripping is idempotent: stripping an already stripped stream       *)
(* returns it word for word.                                               *)
C2_StripIdempotent ==
  nstrips >= 2 => words = pre.words

\* a stream that lost two instructions to the first strip was stripped again
C2_Witness ==
  /\ nstrips = 2
  /\ Len(InstrsOf(src)) = Len(InstrsOf(words)) + 2
  /\ Len(InstrsOf(words)) >= 1

(* C3: parse() fails for every buffer shorter than five words and for      *)
(* every buffer whose first word is not the magic number; no instruction   *)
(* is passed to parse_instruction and the Definition Table is left as it   *)
(* was.                                                                    *)
C3_ParseRejectsBadHeader ==
  (pc # "start" /\ (Len(src) < 5 \/ src[1] # SpvMagicNumber)) =>
    /\ pc = "invalid"
    /\ nparsed = 0
    /\ defs = pre.defs
    /\ defs = <<>>

\* a buffer with a wrong magic number and instructions behind it was rejected
C3_Witness ==
  /\ pc = "invalid"
  /\ Len(src) > 5
  /\ src[1] # SpvMagicNumber
  /\ SubSeq(src, 2, 5) = SubSeq(Header(src[4]), 2, 5)

\* a buffer of fewer than five words was rejected
C3_WitnessShort ==
  /\ pc = "invalid"
  /\ Len(src) < 5

---------------------------------------------------------------------------
(* Location assignment. *)

Ids(d) == 0 .. (Len(d) - 1)

\* a non-built-in variable of storage class Input, Output or UniformConstant
Qualifies(def) ==
  /\ def.dtype = "DT_variable"
  /\ def.builtin = SpvBuiltInMax
  /\ def.storage_class \in
       {SpvStorageClassInput, SpvStorageClassOutput, SpvStorageClassUniformConstant}

\* the locations of the OpDecorate Location instructions of w on id, in order
LocationDecorations(w, id) ==
  LET decs == SelectSeq(InstrsOf(w),
                LAMBDA x : /\ OpcodeOf(x) = SpvOpDecorate
                           /\ Len(x) = 4
                           /\ x[2] = id
                           /\ x[3] = SpvDecorationLocation)
  IN [i \in 1 .. Len(decs) |-> decs[i][4]]

GotLocation(id) ==
  /\ Def(defs, id).location >= 0
  /\ Len(LocationDecorations(words, id)) = Len(LocationDecorations(pre.words, id)) + 1
  /\ LocationDecorations(pre.words, id) = <<>>
  /\ LocationDecorations(words, id) = <<Def(defs, id).location>>

Unassigned(id) == Qualifies(Def(pre.defs, id)) /\ Def(pre.defs, id).location < 0

(* C4: every non-built-in variable Definition of storage class Input,      *)
(* Output or UniformConstant whose location is below 0 before              *)
(* assign_locations has, once assign_locations was run, a location of at   *)
(* least 0, and the stream holds exactly one new OpDecorate instruction    *)
(* with the arguments (that ID, Location, that location).                  *)
C4_EveryUnassignedGetsLocation ==
  pc \in {"assigned", "assign_aborted"} =>
    \A id \in Ids(pre.defs) : Unassigned(id) => GotLocation(id)

\* what does hold: the same whenever assign_locations returns
C4_WhenAssignReturns ==
  pc = "assigned" => \A id \in Ids(pre.defs) : Unassigned(id) => GotLocation(id)

\* assign_locations returned after giving locations to two variables
C4_Returned ==
  /\ pc = "assigned"
  /\ Cardinality({id \in Ids(pre.defs) : Unassigned(id)}) >= 2

\* assign_locations met an unassigned uniform whose type is unresolved
C4_Faulted ==
  /\ pc = "assign_aborted"
  /\ \E id \in Ids(pre.defs) : Unassigned(id) /\ IsNull(Def(pre.defs, id).type)

\* a uniform-constant variable with a resolved type and a location
AssignedUniform(d, id) ==
  /\ Def(d, id).dtype = "DT_variable"
  /\ Def(d, id).storage_class = SpvStorageClassUniformConstant
  /\ Def(d, id).location >= 0
  /\ ~IsNull(Def(d, id).type)

Range(d, id) ==
  Def(d, id).location ..
    (Def(d, id).location + get_num_parameter_locations(Def(d, id).type) - 1)

(* C5, as claimed: after assign_locations the ranges [location, location + *)
(* count) of every two distinct uniform-constant variables that have a     *)
(* location are disjoint, count being the parameter-location count of the  *)
(* variable's type.                                                        *)
C5_AllUniformRangesDisjoint ==
  pc = "assigned" =>
    \A i, j \in Ids(defs) :
      (i # j /\ AssignedUniform(defs, i) /\ AssignedUniform(defs, j)) =>
        Range(defs, i) \cap Range(defs, j) = {}

(* C5, amended: after assign_locations the range of every uniform-constant *)
(* variable that assign_locations gave its location to is disjoint from    *)
(* the range of every other uniform-constant variable that has a location. *)
C5_AllocatedRangesDisjoint ==
  pc = "assigned" =>
    \A i, j \in Ids(defs) :
      (i # j /\ AssignedUniform(defs, i) /\ AssignedUniform(defs, j)
         /\ Def(pre.defs, i).location < 0) =>
        Range(defs, i) \cap Range(defs, j) = {}

\* an array had to skip the free location below a uniform decorated by the input
C5_Witness ==
  /\ pc = "assigned"
  /\ \E i, j \in Ids(defs) :
       /\ AssignedUniform(defs, i) /\ AssignedUniform(defs, j)
       /\ Def(pre.defs, i).location < 0
       /\ Def(pre.defs, j).location = 1
       /\ Cardinality(Range(defs, i)) = 2
       /\ Def(defs, i).location = 2

---------------------------------------------------------------------------
(* Unwrapping the "$Global" block.  Word 1 of an instruction is its first  *)
(* word, so argument n is word n + 2.  A is the sequence of instructions   *)
(* before unwrapping, B the sequence after it.                             *)

Unwrapped == pc = "unwrapped" /\ locals.type_id # 0

Members == Def(pre.defs, locals.type_id).type[2]

IsAnnotation(x) ==
  OpcodeOf(x) \in {SpvOpName, SpvOpMemberName, SpvOpDecorate, SpvOpMemberDecorate}

\* the pointer types to the struct, the variables of such a type
StructPointers(A) ==
  {A[n][2] : n \in {m \in 1 .. Len(A) :
                      OpcodeOf(A[m]) = SpvOpTypePointer /\ A[m][4] = locals.type_id}}

StructVariableAt(A, ptrs, n) == OpcodeOf(A[n]) = SpvOpVariable /\ A[n][2] \in ptrs

StructVariables(A, ptrs) ==
  {A[n][3] : n \in {m \in 1 .. Len(A) : StructVariableAt(A, ptrs, m)}}

\* the instructions the specification says unwrapping deletes for good
Deleted(x, ids) ==
  \/ IsAnnotation(x) /\ Len(x) >= 2 /\ x[2] \in ids
  \/ OpcodeOf(x) = SpvOpTypeStruct /\ x[2] = locals.type_id
  \/ OpcodeOf(x) = SpvOpTypePointer /\ x[4] = locals.type_id

CountOf(instrs, opcode) ==
  Cardinality({n \in 1 .. Len(instrs) : OpcodeOf(instrs[n]) = opcode})

\* the pairs for the members start at instruction j of the new stream
PairsAt(B, j, bound0) ==
  \A k \in 0 .. (Len(Members) - 1) :
    LET ptr == B[j + 2 * k]
        var == B[j + 2 * k + 1]
    IN /\ OpcodeOf(ptr) = SpvOpTypePointer /\ Len(ptr) = 4
       /\ ptr[3] = SpvStorageClassUniformConstant
       /\ Def(defs, ptr[4]).dtype = "DT_type"
       /\ TypeEq(Def(defs, ptr[4]).type, Members[k + 1][1])
       /\ var = Instr(SpvOpVariable, <<ptr[2], var[3], SpvStorageClassUniformConstant>>)
       /\ {ptr[2], var[3]} \subseteq bound0 .. (words[4] - 1)
       /\ ptr[2] # var[3]
       /\ \A l \in 0 .. (k - 1) :
            {ptr[2], var[3]} \cap {B[j + 2 * l][2], B[j + 2 * l + 1][3]} = {}
       /\ locals.member_ids[k + 1] = var[3]
       /\ Def(defs, var[3]).dtype = "DT_variable"
       /\ Def(defs, var[3]).name = Members[k + 1][2]
       /\ TypeEq(Def(defs, var[3]).type, Members[k + 1][1])
       /\ Def(defs, var[3]).storage_class = SpvStorageClassUniformConstant

(* C6: unwrapping a "$Global" struct type with M members erases the        *)
(* OpVariable of the struct and inserts in its place exactly M pairs       *)
(* (OpTypePointer, OpVariable), in member order, all of storage class      *)
(* UniformConstant, each with two freshly allocated, pairwise distinct     *)
(* IDs; the k-th new variable is the one recorded for member k and its     *)
(* Definition is a variable with member k's name and type.                 *)
C6_MembersReplaceStructVariable ==
  Unwrapped =>
    LET A == InstrsOf(pre.words)
        B == InstrsOf(words)
        ptrs == StructPointers(A)
        ids == {locals.type_id} \cup ptrs \cup StructVariables(A, ptrs)
    IN \A n \in 1 .. Len(A) :
         StructVariableAt(A, ptrs, n) =>
           LET kept == SelectSeq(SubSeq(A, 1, n - 1), LAMBDA x : ~Deleted(x, ids))
               j == Len(kept) + 1
           IN /\ \A m \in 1 .. Len(B) : B[m] # A[n]
              /\ Len(B) >= j + 2 * Len(Members) - 1
              /\ SubSeq(B, 1, j - 1) = kept
              /\ PairsAt(B, j, pre.words[4])
              /\ n < Len(A) => B[j + 2 * Len(Members)] = A[n + 1]
              /\ words[4] = pre.words[4] + 2 * Len(Members)
              /\ Len(locals.member_ids) = Len(Members)
              /\ CountOf(B, SpvOpVariable) = CountOf(A, SpvOpVariable) - 1 + Len(Members)
              /\ CountOf(B, SpvOpTypePointer)
                   = CountOf(A, SpvOpTypePointer) - Cardinality(ptrs) + Len(Members)

\* a block of two members of different types was unwrapped
C6_Witness ==
  /\ Unwrapped
  /\ Len(Members) = 2
  /\ ~TypeEq(Members[1][1], Members[2][1])
  /\ Len(locals.member_ids) = 2
  /\ locals.member_ids[1] # locals.member_ids[2]
  /\ CountOf(InstrsOf(words), SpvOpVariable) = CountOf(InstrsOf(pre.words), SpvOpVariable) + 1

IsChain(x) == OpcodeOf(x) \in {SpvOpAccessChain, SpvOpInBoundsAccessChain}
ChainOnStruct(x, svars) == IsChain(x) /\ x[4] \in svars
MemberVariable(x) == locals.member_ids[Def(pre.defs, x[5]).constant + 1]

\* the single-index access chains into the struct before instruction n whose
\* result is id
ErasedChains(A, svars, n, id) ==
  {m \in 1 .. (n - 1) : ChainOnStruct(A[m], svars) /\ Len(A[m]) = 5 /\ A[m][3] = id}

Redirected(A, svars, n, word) ==
  LET chains == ErasedChains(A, svars, n, A[n][word])
  IN IF chains = {} THEN A[n]
     ELSE [A[n] EXCEPT ![word] = MemberVariable(A[CHOOSE m \in chains : TRUE])]

\* what the specification says becomes of instruction n of the old stream
Rewritten(A, svars, n) ==
  LET x == A[n]
  IN CASE ChainOnStruct(x, svars) /\ Len(x) > 5 ->
            <<Instr(OpcodeOf(x), <<x[2], x[3], MemberVariable(x)>> \o SubSeq(x, 6, Len(x)))>>
       [] ChainOnStruct(x, svars) /\ Len(x) = 5 -> <<>>
       [] OpcodeOf(x) = SpvOpLoad -> <<Redirected(A, svars, n, 4)>>
       [] OpcodeOf(x) = SpvOpCopyMemory -> <<Redirected(A, svars, n, 3)>>
       [] OTHER -> <<x>>

ChainLoadOrCopy(x) == IsChain(x) \/ OpcodeOf(x) \in {SpvOpLoad, SpvOpCopyMemory}

(* C7: an OpAccessChain or OpInBoundsAccessChain whose base is the deleted *)
(* struct variable and whose first index is the constant k is, if it has   *)
(* further indices, kept with its base replaced by the k-th new variable   *)
(* and its first index removed; if it has exactly one index it is erased   *)
(* and every later OpLoad pointer operand or OpCopyMemory source operand   *)
(* equal to its result ID is rewritten to the k-th new variable.           *)
C7_AccessChainsRewritten ==
  Unwrapped =>
    LET A == InstrsOf(pre.words)
        B == InstrsOf(words)
        svars == StructVariables(A, StructPointers(A))
    IN SelectSeq(B, ChainLoadOrCopy)
         = Flatten([n \in 1 .. Len(A) |->
                      IF ChainLoadOrCopy(A[n]) THEN Rewritten(A, svars, n) ELSE <<>>])

\* a chain with two indices was shortened and a chain with one index erased
C7_Witness ==
  /\ Unwrapped
  /\ LET A == InstrsOf(pre.words)
         svars == StructVariables(A, StructPointers(A))
     IN /\ \E n \in 1 .. Len(A) : ChainOnStruct(A[n], svars) /\ Len(A[n]) > 5
        /\ \E n \in 1 .. Len(A) :
             /\ OpcodeOf(A[n]) \in {SpvOpLoad, SpvOpCopyMemory}
             /\ Rewritten(A, svars, n) # <<A[n]>>

\* the operands of an instruction that are IDs
IdOperands(x) ==
  LET op == OpcodeOf(x)
      at(S) == {x[i] : i \in S \cap (2 .. Len(x))}
  IN CASE IsAnnotation(x) -> at({2})
       [] op = SpvOpEntryPoint -> at({3})
       [] op \in {SpvOpTypeVoid, SpvOpTypeBool, SpvOpTypeInt, SpvOpTypeFloat,
                  Other.OpLabel} -> at({2})
       [] op \in {SpvOpTypeVector, SpvOpConstant, SpvOpVariable, SpvOpCopyMemory}
            -> at({2, 3})
       [] op = SpvOpTypePointer -> at({2, 4})
       [] op = Other.OpFunction -> at({2, 3, 5})
       [] op \in {SpvOpTypeArray, SpvOpTypeStruct, Other.OpTypeRuntimeArray,
                  Other.OpTypeFunction, SpvOpAccessChain, SpvOpInBoundsAccessChain}
            -> at(2 .. Len(x))
       [] op = SpvOpLoad -> at({2, 3, 4})
       [] OTHER -> {}

References(w, ids) ==
  LET B == InstrsOf(w)
  IN {n \in 1 .. Len(B) : IdOperands(B[n]) \cap ids # {}}

(* C8: after a module with a "$Global" struct has been unwrapped, and      *)
(* still in its final stream after location assignment and stripping, no   *)
(* instruction references the deleted struct type ID, a deleted pointer    *)
(* type ID or the deleted struct variable ID.                              *)
C8_NoReferenceToDeleted ==
  (pc \in {"unwrapped", "assigned", "published", "ready"} /\ locals.type_id # 0) =>
    References(words, {locals.type_id} \cup locals.deleted_ids) = {}

\* what does hold: no such reference when unwrap_uniform_block returns
C8_NoReferenceAfterUnwrap ==
  Unwrapped => References(words, {locals.type_id} \cup locals.deleted_ids) = {}

\* the block's variable was declared in storage class UniformConstant
C8_UniformConstantBlock ==
  /\ pc = "ready"
  /\ locals.type_id # 0
  /\ \E id \in locals.deleted_ids :
       Def(defs, id).storage_class = SpvStorageClassUniformConstant

\* what does hold: no such reference in the final stream of a module whose
\* block is not in storage class UniformConstant
C8_NoReferenceUnlessUniformConstant ==
  (pc \in {"unwrapped", "assigned", "published", "ready"} /\ locals.type_id # 0
     /\ \A id \in locals.deleted_ids :
          Def(defs, id).storage_class # SpvStorageClassUniformConstant) =>
    References(words, {locals.type_id} \cup locals.deleted_ids) = {}

---------------------------------------------------------------------------
(* Linking the inputs to the outputs of the previous stage. *)

\* the IDs of the published inputs, in the order of the list (lines 54-65)
InputIds ==
  SelectSeq([i \in 1 .. Len(defs) |-> i - 1],
            LAMBDA id : /\ Qualifies(Def(defs, id))
                        /\ Def(defs, id).storage_class = SpvStorageClassInput)

OutputsNamed(previous, name) ==
  {k \in 1 .. Len(previous.outputs) : previous.outputs[k].name = name}

OutputLocation(previous, name) ==
  previous.outputs[CHOOSE k \in OutputsNamed(previous, name) : TRUE].location

(* C9: after link_inputs(previous) succeeds, the Location decoration of    *)
(* every input variable in this module's bytecode equals the location of   *)
(* the same-named output of the previous module.                           *)
C9_LinkedInputsFollowOutputs ==
  (pc = "ready" /\ result = "true") =>
    \A k \in 1 .. Len(inputs) :
      LocationDecorations(words, InputIds[k]) = <<OutputLocation(prev, inputs[k].name)>>

\* the published inputs describe the bytecode, and no two share a location
InputsInStep ==
  /\ \A k \in 1 .. Len(inputs) :
       LocationDecorations(words, InputIds[k]) = <<inputs[k].location>>
  /\ \A k, l \in 1 .. Len(inputs) :
       k # l => inputs[k].location # inputs[l].location

\* what does hold: a successful link of a module whose published inputs
\* describe its bytecode moves every input to the output's location
C9_LinkOfInputsInStep ==
  [][(pc = "ready" /\ result' = "true" /\ InputsInStep) =>
       \A k \in 1 .. Len(inputs) :
         LocationDecorations(words', InputIds[k])
           = <<OutputLocation(prev', inputs[k].name)>>]_vars

\* the cases in which the specification says the link must fail
LinkMustFail(previous) ==
  \/ ~previous.is_spirv
  \/ StageOrder(previous.stage) >= StageOrder(stage)
  \/ \E k \in 1 .. Len(inputs) :
       \/ OutputsNamed(previous, inputs[k].name) = {}
       \/ OutputLocation(previous, inputs[k].name) < 0

(* C10: link_inputs(previous) reports failure and leaves the bytecode and  *)
(* the published lists unmodified when previous is not a SPIR-V module,    *)
(* when its stage is not strictly earlier, when an input has no same-named *)
(* output in previous, and when the matched output has no location, even   *)
(* if earlier inputs of the list matched and needed remapping.             *)
C10_FailedLinkChangesNothing ==
  [][(pc = "ready" /\ result' \in {"true", "false"} /\ LinkMustFail(prev')) =>
       /\ result' = "false"
       /\ words' = words
       /\ inputs' = inputs
       /\ outputs' = outputs
       /\ parameters' = parameters]_vars

\* a link failed on its second input after its first input matched an
\* output at another location
C10_Witness ==
  /\ pc = "ready"
  /\ result = "false"
  /\ prev.is_spirv
  /\ prev.stage = "vertex"
  /\ Len(inputs) = 2
  /\ OutputsNamed(prev, inputs[1].name) # {}
  /\ OutputLocation(prev, inputs[1].name) >= 0
  /\ OutputLocation(prev, inputs[1].name) # inputs[1].location
  /\ OutputsNamed(prev, inputs[2].name) = {}

\* a second link was made after a link that moved an input
C9_Relinked ==
  /\ pc = "ready"
  /\ result = "true"
  /\ \E k \in 1 .. Len(inputs) :
       /\ LocationDecorations(words, InputIds[k]) # <<inputs[k].location>>
       /\ OutputLocation(prev, inputs[k].name) = inputs[k].location

---------------------------------------------------------------------------
(* The published lists. *)

\* the IDs of the non-built-in variables of a storage class, ascending
QualifyingIds(storage_class) ==
  SelectSeq([i \in 1 .. Len(defs) |-> i - 1],
            LAMBDA id : /\ Qualifies(Def(defs, id))
                        /\ Def(defs, id).storage_class = storage_class)

PublishedFrom(list, storage_class) ==
  LET ids == QualifyingIds(storage_class)
  IN /\ Len(list) = Len(ids)
     /\ \A k \in 1 .. Len(ids) :
          /\ TypeEq(list[k].type, Def(defs, ids[k]).type)
          /\ list[k].name = Def(defs, ids[k]).name
          /\ list[k].location = Def(defs, ids[k]).location
          /\ list[k].location >= 0

(* C11: after a successful construction every entry of the published      *)
(* inputs, outputs and parameters is a copy of a non-built-in variable     *)
(* Definition of storage class Input, Output and UniformConstant           *)
(* respectively, in ascending ID order, every qualifying Definition is     *)
(* published exactly once, and every entry has a location of at least 0.   *)
C11_ListsPublishQualifyingVariables ==
  pc \in {"published", "ready"} =>
    /\ PublishedFrom(inputs, SpvStorageClassInput)
    /\ PublishedFrom(outputs, SpvStorageClassOutput)
    /\ PublishedFrom(parameters, SpvStorageClassUniformConstant)

\* a module with a built-in input, and an input that had no location, was
\* constructed
C11_Witness ==
  /\ pc = "ready"
  /\ Len(inputs) = 1
  /\ \E id \in Ids(defs) :
       /\ Def(defs, id).dtype = "DT_variable"
       /\ Def(defs, id).storage_class = SpvStorageClassInput
       /\ Def(defs, id).builtin # SpvBuiltInMax
  /\ LocationDecorations(src, QualifyingIds(SpvStorageClassInput)[1]) = <<>>

---------------------------------------------------------------------------
(* Remapping the parameter locations. *)

Mirrored(list, storage_class) ==
  LET ids == QualifyingIds(storage_class)
  IN /\ Len(list) = Len(ids)
     /\ \A k \in 1 .. Len(ids) :
          LocationDecorations(words, ids[k]) = <<list[k].location>>

(* C12: after any sequence of remap_parameter_locations calls on a         *)
(* constructed module, the location of each published parameter equals the *)
(* value of the Location decoration of that parameter's variable in the    *)
(* bytecode.                                                               *)
C12_ParametersMirrorBytecode ==
  pc = "ready" => Mirrored(parameters, SpvStorageClassUniformConstant)

\* the variables declared by an OpVariable of the stream
DeclaredVariables ==
  LET B == InstrsOf(words)
  IN {B[n][3] : n \in {m \in 1 .. Len(B) : OpcodeOf(B[m]) = SpvOpVariable}}

\* what does hold: the same for a module all of whose published parameters
\* are still declared in the stream
C12_MirroredWhenDeclared ==
  (pc = "ready"
     /\ \A k \in 1 .. Len(QualifyingIds(SpvStorageClassUniformConstant)) :
          QualifyingIds(SpvStorageClassUniformConstant)[k] \in DeclaredVariables) =>
    Mirrored(parameters, SpvStorageClassUniformConstant)

\* two parameters have swapped their locations
C12_Swapped ==
  /\ pc = "ready"
  /\ result = "void"
  /\ Len(parameters) = 2
  /\ LocationDecorations(src, QualifyingIds(SpvStorageClassUniformConstant)[1]) = <<>>
  /\ parameters[1].location = 1
  /\ parameters[2].location = 0

RECURSIVE StartsFrom(_, _)
StartsFrom(w, p) ==
  IF p > Len(w) THEN {} ELSE {p} \cup StartsFrom(w, p + WCount(w, p))

\* the variables a stream declares in a storage class
DeclaredIn(w, starts, storage_class) ==
  {w[p + 2] : p \in {q \in starts : /\ Opcode(w, q) = SpvOpVariable
                                    /\ w[q + 3] = storage_class}}

\* the positions of the location words of the Location decorations on
\* UniformConstant variables whose location is a key of map
KeyedLocationWords(w, map) ==
  LET starts == StartsFrom(w, 6)
      uniforms == DeclaredIn(w, starts, SpvStorageClassUniformConstant)
  IN {p + 3 : p \in {q \in starts : /\ Opcode(w, q) = SpvOpDecorate
                                    /\ WCount(w, q) = 4
                                    /\ w[q + 2] = SpvDecorationLocation
                                    /\ w[q + 1] \in uniforms
                                    /\ w[q + 3] \in DOMAIN map}}

ParseMustFail(w) ==
  \/ Len(w) < 5
  \/ w[1] # SpvMagicNumber
  \/ LET starts == StartsFrom(w, 6)
     IN \E p \in starts :
          \/ /\ Opcode(w, p) = SpvOpMemoryModel
             /\ <<w[p + 1], w[p + 2]>> # <<SpvAddressingModelLogical, SpvMemoryModelGLSL450>>
          \/ /\ Opcode(w, p) = SpvOpVariable
             /\ ~\E q \in starts : /\ q < p
                                   /\ Opcode(w, q) = SpvOpTypePointer
                                   /\ w[q + 1] = w[p + 1]

(* C14: when parse() fails the constructor returns at once: nothing is     *)
(* unwrapped, assigned or stripped, so the instruction stream still equals *)
(* the input words, and the inputs, outputs and parameters lists are empty.*)
C14_FailedParseLeavesModuleUnusable ==
  /\ (pc # "start" /\ ParseMustFail(src)) => pc = "invalid"
  /\ pc = "invalid" =>
       /\ words = src
       /\ inputs = <<>>
       /\ outputs = <<>>
       /\ parameters = <<>>
       /\ nstrips = 0
       /\ locals = NoLocals

\* parse failed part-way through a module that declares an input
C14_Witness ==
  /\ pc = "invalid"
  /\ nparsed > 1
  /\ \E p \in StartsFrom(src, 6) :
       /\ Opcode(src, p) = SpvOpVariable
       /\ src[p + 3] = SpvStorageClassInput

\* the opcodes whose case in parse_instruction gives the result ID a type
Resolving ==
  {SpvOpTypeBool, SpvOpTypeInt, SpvOpTypeFloat, SpvOpTypeVector, SpvOpTypeMatrix,
   SpvOpTypeImage, SpvOpTypeSampler, SpvOpTypeSampledImage, SpvOpTypeArray,
   SpvOpTypeStruct}

\* the component, column, element or member operands of a composite at p
ComponentWords(w, p) ==
  IF Opcode(w, p) = SpvOpTypeStruct THEN p + 2 .. p + WCount(w, p) - 1 ELSE {p + 2}

\* a composite type of the input, of one of the given opcodes, names an ID
\* that no earlier instruction of the single pass has given a type
UnresolvedIn(w, opcodes) ==
  LET starts == StartsFrom(w, 6)
  IN \E p \in starts :
       /\ Opcode(w, p) \in opcodes
       /\ \E c \in ComponentWords(w, p) :
            ~\E q \in starts : /\ q < p
                               /\ Opcode(w, q) \in Resolving
                               /\ w[q + 1] = w[c]

(* C15: parse() fails whenever an OpTypeVector, OpTypeMatrix, OpTypeArray  *)
(* or OpTypeStruct names a component, column, element or member ID that    *)
(* carries no resolved type at that point of the pass.                     *)
C15_UnresolvedComponentFailsParse ==
  (pc # "start" /\ header_ok(src) /\ UnresolvedIn(src, Composites)) => pc = "invalid"

\* what the code does: only the two casts of lines 275 and 285 stop the parse
C15_UnresolvedVectorOrMatrixFailsParse ==
  (pc # "start" /\ header_ok(src)
     /\ UnresolvedIn(src, {SpvOpTypeVector, SpvOpTypeMatrix})) => pc = "invalid"

\* an array over an unresolved element was parsed without an error and the
\* module was constructed, the array's Definition left without a type
C15_ArrayTolerated ==
  /\ pc = "ready"
  /\ UnresolvedIn(src, {SpvOpTypeArray})
  /\ Def(defs, DefectId).dtype = "DT_none"

\* a struct over an unresolved member was parsed without an error and the
\* struct type holds a member without a type
C15_StructTolerated ==
  /\ pc = "ready"
  /\ UnresolvedIn(src, {SpvOpTypeStruct})
  /\ IsStruct(Def(defs, DefectId).type)
  /\ \E m \in 1 .. Len(Def(defs, DefectId).type[2]) :
       IsNull(Def(defs, DefectId).type[2][m][1])

\* the lowest location from n upwards that is not in used
LowestFreeFrom(used, n) ==
  CHOOSE i \in n .. (n + Cardinality(used)) :
    i \notin used /\ \A j \in n .. (i - 1) : j \in used

\* the location the input policy gives a variable of this name when the
\* input locations in used are taken
PolicyLocation(st_stage, name, used) ==
  IF st_stage = "vertex" /\ 0 \notin used
  THEN IF name \in {"vertex", "p3d_Vertex", "vtx_position"} THEN 0
       ELSE LowestFreeFrom(used, 1)
  ELSE LowestFreeFrom(used, 0)

\* the input locations decorated in the module before assign_locations ran
DecoratedInputs(d) ==
  {d[i].location : i \in {j \in DOMAIN d : /\ d[j].dtype = "DT_variable"
                                           /\ d[j].location >= 0
                                           /\ d[j].storage_class = SpvStorageClassInput}}

\* the unassigned non-built-in Input variables among the IDs from id upwards
UnassignedInputsFrom(d, id) ==
  {i \in id .. Len(d) - 1 : /\ Def(d, i).dtype = "DT_variable"
                            /\ Def(d, i).location < 0
                            /\ Def(d, i).builtin = SpvBuiltInMax
                            /\ Def(d, i).storage_class = SpvStorageClassInput}

\* walks the unassigned inputs upwards from id: each has the policy's
\* location, which no input before it uses
RECURSIVE InputsFollowPolicy(_, _, _, _, _)
InputsFollowPolicy(w, d, st_stage, id, used) ==
  LET rest == UnassignedInputsFrom(d, id)
  IN IF rest = {} THEN TRUE
     ELSE LET next == CHOOSE i \in rest : \A j \in rest : i <= j
              location == PolicyLocation(st_stage, Def(d, next).name, used)
          IN /\ LocationDecorations(w, next) = <<location>>
             /\ location \notin used
             /\ InputsFollowPolicy(w, d, st_stage, next + 1, used \cup {location})

(* C16: each unassigned non-built-in Input variable, in ascending ID order,*)
(* gets: in the vertex stage while input location 0 is free, location 0 if *)
(* it is named "vertex", "p3d_Vertex" or "vtx_position" and otherwise the  *)
(* lowest free location >= 1; in another stage, or once location 0 is      *)
(* taken, the lowest free location; never a location another input uses.   *)
C16_InputLocationPolicy ==
  pc = "assigned" =>
    InputsFollowPolicy(words, pre.defs, stage, 0, DecoratedInputs(pre.defs))

\* vertex stage: an input not named as the vertex column is given 2, since 1
\* is taken, and location 0 stays free
C16_Witness ==
  /\ pc = "assigned"
  /\ stage = "vertex"
  /\ DecoratedInputs(pre.defs) = {1}
  /\ \E id \in UnassignedInputsFrom(pre.defs, 0) :
       /\ Def(pre.defs, id).name = "color"
       /\ LocationDecorations(words, id) = <<2>>

\* vertex stage: the vertex column is given 0 and the next input 1
C16_VertexColumnFirst ==
  /\ pc = "assigned"
  /\ stage = "vertex"
  /\ \E a, b \in UnassignedInputsFrom(pre.defs, 0) :
       /\ Def(pre.defs, a).name = "vertex"
       /\ LocationDecorations(words, a) = <<0>>
       /\ LocationDecorations(words, b) = <<1>>

\* the variables of w declared through a pointer to the struct named "$Global"
GlobalVariables(w, starts) ==
  LET named == {w[p + 1] : p \in {q \in starts : /\ Opcode(w, q) = SpvOpName
                                                 /\ String(w[q + 2]) = "$Global"}}
      ptrs == {w[p + 1] : p \in {q \in starts : /\ Opcode(w, q) = SpvOpTypePointer
                                                /\ w[q + 3] \in named}}
  IN {w[p + 2] : p \in {q \in starts : /\ Opcode(w, q) = SpvOpVariable
                                       /\ w[q + 1] \in ptrs}}

\* the positions of the loads and copies of w that name such a variable itself
DirectUses(w) ==
  LET starts == StartsFrom(w, 6)
      gvars == GlobalVariables(w, starts)
  IN {p \in starts : \/ Opcode(w, p) = SpvOpLoad /\ w[p + 3] \in gvars
                     \/ Opcode(w, p) = SpvOpCopyMemory /\ w[p + 2] \in gvars}

Lowest(S) == CHOOSE p \in S : \A q \in S : p <= q

\* the words of w from position p to the end
TailFrom(w, p) == SubSeq(w, p, Len(w))

\* the last n words of w
LastWords(w, n) == SubSeq(w, Len(w) - n + 1, Len(w))

(* C17: when unwrap_uniform_block meets an OpLoad whose pointer, or an      *)
(* OpCopyMemory whose source, is the deleted struct variable itself, it     *)
(* stops with an assertion failure, and the stream from that instruction    *)
(* to the end is as it was before the unwrapping.                           *)
C17_DirectUseAsserts ==
  pc \in {"unwrapped", "unwrap_aborted"} =>
    LET direct == DirectUses(pre.words)
    IN /\ direct # {} =>
            /\ pc = "unwrap_aborted"
            /\ fault = "assert"
            /\ LET tail == TailFrom(pre.words, Lowest(direct))
               IN /\ Len(words) >= Len(tail)
                  /\ LastWords(words, Len(tail)) = tail
       /\ (pc = "unwrap_aborted" /\ fault = "assert") => direct # {}

\* the assertion stopped the unwrapping at a direct load after it had
\* rewritten earlier instructions, and an access chain on the struct
\* variable that follows the load was left as it was
C17_Witness ==
  /\ pc = "unwrap_aborted"
  /\ fault = "assert"
  /\ words # pre.words
  /\ LET direct == DirectUses(pre.words)
     IN /\ direct # {}
        /\ Opcode(pre.words, Lowest(direct)) = SpvOpLoad
        /\ \E p \in StartsFrom(pre.words, 6) :
             /\ p > Lowest(direct)
             /\ Opcode(pre.words, p) = SpvOpAccessChain

\* the same at a direct copy
C17_WitnessCopy ==
  /\ pc = "unwrap_aborted"
  /\ fault = "assert"
  /\ LET direct == DirectUses(pre.words)
     IN /\ direct # {}
        /\ Opcode(pre.words, Lowest(direct)) = SpvOpCopyMemory
        /\ \E p \in StartsFrom(pre.words, 6) :
             /\ p > Lowest(direct)
             /\ Opcode(pre.words, p) = SpvOpAccessChain

\* the elements of a set of numbers, lowest first
RECURSIVE Ascending(_)
Ascending(S) ==
  IF S = {} THEN <<>> ELSE <<Lowest(S)>> \o Ascending(S \ {Lowest(S)})

\* the position of the first instruction of w that is not of the leading
\* metadata and annotation opcodes; Len(w) + 1 when there is none
FirstNonAnnotation(w) ==
  LET starts == StartsFrom(w, 6)
      others == {p \in starts : ~is_annotation_opcode(Opcode(w, p))}
  IN IF others = {} THEN Len(w) + 1 ELSE Lowest(others)

\* the IDs that had no location before assign_locations and needed one
NeedLocation == {id \in Ids(pre.defs) : Unassigned(id)}

(* C18: when a variable needs a location, assign_locations inserts the new *)
(* OpDecorate Location instructions as one run, in ascending ID order,     *)
(* right before the first instruction outside the leading annotation       *)
(* opcodes, so before every OpVariable, and every other word of the stream *)
(* is as before; when no variable needs one, stream and Definitions are    *)
(* unchanged.                                                              *)
C18_DecorationsInsertedAsOneRun ==
  pc = "assigned" =>
    LET need == Ascending(NeedLocation)
        n == Len(need)
        e == FirstNonAnnotation(pre.words)
    IN IF n = 0 THEN words = pre.words /\ defs = pre.defs
       ELSE /\ Len(words) = Len(pre.words) + 4 * n
            /\ SubSeq(words, 1, e - 1) = SubSeq(pre.words, 1, e - 1)
            /\ TailFrom(words, e + 4 * n) = TailFrom(pre.words, e)
            /\ \A k \in 1 .. n :
                 SubSeq(words, e + 4 * (k - 1), e + 4 * k - 1) =
                   Instr(SpvOpDecorate,
                         <<need[k], SpvDecorationLocation, Def(defs, need[k]).location>>)
            /\ \A p \in StartsFrom(words, 6) :
                 Opcode(words, p) = SpvOpVariable => p >= e + 4 * n

\* two decorations or more were inserted, between annotations and types
C18_Witness ==
  /\ pc = "assigned"
  /\ Cardinality(NeedLocation) >= 2
  /\ words # pre.words
  /\ FirstNonAnnotation(pre.words) \in 7 .. Len(pre.words)

\* nothing needed a location in a module that declares variables
C18_Untouched ==
  /\ pc = "assigned"
  /\ NeedLocation = {}
  /\ \E id \in Ids(defs) : Qualifies(Def(defs, id))
  /\ words = pre.words

(* C19: after any sequence of successful link_inputs calls on a constructed*)
(* module, each published input's location equals the value of the         *)
(* Location decoration of that input variable in the bytecode.             *)
C19_PublishedInputsDescribeBytecode ==
  pc = "ready" =>
    \A k \in 1 .. Len(inputs) :
      LocationDecorations(words, InputIds[k]) = <<inputs[k].location>>

\* what does hold: the published inputs describe the bytecode of a
\* constructed module until a link is made
C19_DescribedBeforeLinking ==
  (pc = "ready" /\ result = "none") =>
    \A k \in 1 .. Len(inputs) :
      LocationDecorations(words, InputIds[k]) = <<inputs[k].location>>

\* one successful link has moved an input in the bytecode and the published
\* input still shows the location it had
C19_StaleAfterLink ==
  /\ pc = "ready"
  /\ result = "true"
  /\ \E k \in 1 .. Len(inputs) :
       /\ LocationDecorations(words, InputIds[k])
            = <<OutputLocation(prev, inputs[k].name)>>
       /\ OutputLocation(prev, inputs[k].name) # inputs[k].location

=============================================================================
